---- MODULE Spec2Model ----
(***************************************************************************)
(* Access-request validation of lib/services/access_request.go: the rule  *)
(* aggregator (requestValidator), ValidateAccessRequest and the request    *)
(* record AccessRequestV3.                                                  *)
(*                                                                         *)
(* Strings that are pattern-matched (role names, role patterns) are        *)
(* sequences of one-character strings, so that glob and regular-expression *)
(* matching is computed character by character.  Strings that are only     *)
(* compared for equality (trait names and values, annotation keys and      *)
(* values, reasons) are TLA+ strings.                                      *)
(***************************************************************************)
EXTENDS Integers, Sequences, FiniteSets, TLC

VARIABLES
    validator,  \* a requestValidator under construction (traits, state, Roles, Annotations)
    pushed,     \* names of the roles whose push into validator returned nil, in order
    pushErr,    \* error returned by the last push into validator
    users,      \* the stored users: user name -> [roles, traits]
    req,        \* the AccessRequestV3 being processed
    pc,         \* position of the caller: "push", "new", "validated", "revalidated",
                \* "state", "check" or "concurrent"
    ret,        \* the last call: its arguments, its result, the request before and after
    calls,      \* the invocations of ValidateAccessRequest in flight: their arguments,
                \* local variables, position and result
    validators, \* the aggregators the invocations in flight have allocated
    arg,        \* the AccessRequestUpdate, or the AccessRequestFilter and the map, a call
                \* of their methods is made with
    cmd,        \* the tctl command in progress: its flags, its position in the list of
                \* request ids and its result
    store,      \* the auth server behind the client: the stored requests by id and the
                \* calls of SetAccessRequestState it has received, in order
    scaling     \* Application Auto Scaling: the registered scalable targets and scaling
                \* policies, and the configuration the backend last applied

vars == <<validator, pushed, pushErr, users, req, pc, ret, calls, validators,
          arg, cmd, store, scaling>>

-----------------------------------------------------------------------------
(* Bounds of the model *)

\* longest list of roles a user holds
MaxHeld == 2
\* longest list of roles a request names when it is created
MaxReq == 2
\* most roles pushed into one aggregator
MaxPush == 2

-----------------------------------------------------------------------------
(* Errors and enumerations *)

Nil == "nil"
NotFound == "NotFound"
BadParameter == "BadParameter"

RequestStrategyOptional == "optional"
RequestStrategyReason == "reason"
RequestStrategyAlways == "always"

RequestState_NONE == 0
RequestState_PENDING == 1
RequestState_APPROVED == 2
RequestState_DENIED == 3

stateVariants ==
    {RequestState_NONE, RequestState_PENDING, RequestState_APPROVED, RequestState_DENIED}

IsPending(s) == s = RequestState_PENDING

IsDenied(s) == s = RequestState_DENIED

-----------------------------------------------------------------------------
(* Sequence helpers *)

Range(s) == {s[i] : i \in 1..Len(s)}

SliceContainsStr(slice, v) == \E i \in 1..Len(slice) : slice[i] = v

RECURSIVE Flatten(_)
Flatten(ss) == IF ss = <<>> THEN <<>> ELSE Head(ss) \o Flatten(Tail(ss))

\* sequences over S of length lo..hi
SeqsOf(S, lo, hi) == UNION {[1..n -> S] : n \in lo..hi}

\* a Go map read: the zero value for a key that is absent
MapGet(m, k) == IF k \in DOMAIN m THEN m[k] ELSE <<>>

EmptyMap == <<>>

-----------------------------------------------------------------------------
(* Pattern matcher (lib/utils/parse, not among the sources: modelled from  *)
(* the specification, section 4.1).  A pattern that starts with ^ and ends *)
(* with $ is a regular expression; any other pattern is a glob, turned     *)
(* into an anchored regular expression with * as "any substring" and every *)
(* other character quoted.  The regular expressions of the model are       *)
(* concatenations of atoms (a character, an escaped character, or . for    *)
(* any character), each optionally followed by *.  An unbalanced           *)
(* parenthesis fails to compile.                                           *)

RegexpMeta == {".", "*", "^", "$", "(", ")", "\\"}

Anchored(p) == Len(p) >= 2 /\ p[1] = "^" /\ p[Len(p)] = "$"

RECURSIVE GlobToRegexp(_)
GlobToRegexp(p) ==
    IF p = <<>> THEN <<>>
    ELSE IF Head(p) = "*" THEN <<".", "*">> \o GlobToRegexp(Tail(p))
    ELSE IF Head(p) \in RegexpMeta THEN <<"\\", Head(p)>> \o GlobToRegexp(Tail(p))
    ELSE <<Head(p)>> \o GlobToRegexp(Tail(p))

\* number of unescaped occurrences of c in the expression e
RECURSIVE Unescaped(_, _)
Unescaped(e, c) ==
    IF e = <<>> THEN 0
    ELSE IF Head(e) = "\\" THEN (IF Len(e) >= 2 THEN Unescaped(Tail(Tail(e)), c) ELSE 0)
    ELSE (IF Head(e) = c THEN 1 ELSE 0) + Unescaped(Tail(e), c)

Compiles(e) == Unescaped(e, "(") = Unescaped(e, ")")

\* the body of an anchored expression matches the whole of s: the first
\* atom of e (escaped or not), starred or not, then the rest
RECURSIVE ReMatch(_, _)
atomHits(esc, atom, c) == IF esc THEN c = atom ELSE (atom = "." \/ c = atom)

matchAtom(e, esc, atom, rest, s) ==
    IF rest # <<>> /\ Head(rest) = "*"
    THEN \/ ReMatch(Tail(rest), s)
         \/ s # <<>> /\ atomHits(esc, atom, Head(s)) /\ ReMatch(e, Tail(s))
    ELSE s # <<>> /\ atomHits(esc, atom, Head(s)) /\ ReMatch(rest, Tail(s))

ReMatch(e, s) ==
    IF e = <<>> THEN s = <<>>
    ELSE IF Head(e) = "\\" /\ Len(e) >= 2
    THEN matchAtom(e, TRUE, e[2], SubSeq(e, 3, Len(e)), s)
    ELSE matchAtom(e, FALSE, e[1], Tail(e), s)

\* the matcher of a regular expression, or the error of compiling it
compile(raw) ==
    IF Compiles(raw) THEN [err |-> Nil, re |-> raw]
    ELSE [err |-> BadParameter, re |-> <<>>]

NewMatcher(pattern) ==
    IF Anchored(pattern) THEN compile(pattern)
    ELSE compile(<<"^">> \o GlobToRegexp(pattern) \o <<"$">>)

Match(m, name) == ReMatch(SubSeq(m.re, 2, Len(m.re) - 1), name)

-----------------------------------------------------------------------------
(* Trait interpolator (lib/services/role.go and traits.go, not among the   *)
(* sources: modelled from the specification, section 4.2, with the         *)
(* signatures the calls in push show).  An annotation template is a        *)
(* literal or one reference {{trait}}.  The value pattern of a trait       *)
(* mapping is * or a literal, and its role templates carry no regular-     *)
(* expression backreference.                                               *)

Lit(text) == [var |-> FALSE, text |-> text]

Ref(trait) == [var |-> TRUE, text |-> trait]

\* a literal expands to itself, a bound reference to its values, and a
\* reference to an unbound or empty trait is an error
applyValueTraits(val, traits) ==
    IF ~val.var THEN [err |-> Nil, vals |-> <<val.text>>]
    ELSE IF Len(MapGet(traits, val.text)) = 0 THEN [err |-> NotFound, vals |-> <<>>]
    ELSE [err |-> Nil, vals |-> traits[val.text]]

ValueMatches(expr, value) == expr = "*" \/ expr = value

\* the role templates of one mapping, once for every matching value bound to its claim
TraitToRoles(mapping, traits) ==
    LET bound == MapGet(traits, mapping.claim)
    IN  Flatten([i \in 1..Len(bound) |->
                    IF ValueMatches(mapping.value, bound[i]) THEN mapping.roles ELSE <<>>])

TraitsToRoles(mappings, traits) ==
    Flatten([i \in 1..Len(mappings) |-> TraitToRoles(mappings[i], traits)])

-----------------------------------------------------------------------------
(* The catalogue: role names, the roles stored, and the users' traits *)

WILDCARD == <<"*">>

base == <<"b">>
strict == <<"s", "t">>
mapper == <<"d", "-", "m">>
broken == <<"b", "a", "d">>
ghost == <<"g", "h">>
devInfra == <<"d", "-", "i">>
devSecret == <<"d", "-", "s">>
ops == <<"o", "p", "s">>

Conditions(roles, claims, annotations) ==
    [roles |-> roles, claims |-> claims, annotations |-> annotations]

NoConditions == Conditions(<<>>, <<>>, EmptyMap)

Role(name, allow, deny, requestAccess) ==
    [name |-> name, allow |-> allow, deny |-> deny, requestAccess |-> requestAccess]

\* the roles stored, in the order the listing returns them; ghost is stored nowhere
AllRoles ==
    << Role(base,
            Conditions(<< <<"d", "-", "*">> >>, <<>>,
                       ("team" :> <<Ref("nick"), Ref("team")>>) @@ ("env" :> <<Lit("prod")>>)),
            Conditions(<<devSecret>>, <<>>, EmptyMap),
            RequestStrategyOptional),
       Role(broken,
            Conditions(<<devInfra, <<"^", "(", "$">>, ops>>, <<>>, EmptyMap),
            Conditions(<<ops>>,
                       <<[claim |-> "groups", value |-> "*",
                          roles |-> <<devSecret, <<"^", "(", "$">>, devInfra>>]>>,
                       ("team" :> <<Lit("sec")>>)),
            RequestStrategyOptional),
       Role(devInfra, NoConditions, NoConditions, RequestStrategyOptional),
       Role(mapper,
            Conditions(<<>>, <<[claim |-> "groups", value |-> "*", roles |-> <<ops>>]>>,
                       ("team" :> <<Lit("core")>>)),
            Conditions(<<>>, <<>>, ("env" :> <<Ref("team")>>) @@ ("team" :> <<Lit("sec")>>)),
            RequestStrategyAlways),
       Role(devSecret, NoConditions, NoConditions, RequestStrategyOptional),
       Role(ops, NoConditions, NoConditions, RequestStrategyOptional),
       Role(strict,
            Conditions(<< <<"^", "o", ".", "*", "$">>, <<"*">> >>, <<>>, EmptyMap),
            Conditions(<<>>,
                       <<[claim |-> "groups", value |-> "admins", roles |-> <<devInfra>>]>>,
                       ("team" :> <<Lit("infra")>>) @@ ("env" :> <<Lit("prod")>>)),
            RequestStrategyReason) >>

RoleNames == {AllRoles[i].name : i \in 1..Len(AllRoles)}

RoleByName(name) == CHOOSE r \in Range(AllRoles) : r.name = name

\* the role names a user may hold: the roles that carry policy, and one that is not stored
HeldNames == {base, strict, mapper, broken, ghost}

\* every name CanRequestRole is asked about
Names == RoleNames \cup {ghost, WILDCARD}

TraitChoices ==
    { EmptyMap,
      ("team" :> <<"infra", "sec">>) @@ ("groups" :> <<"admins">>) }

AnnotationKeys == {"team", "env"}

-----------------------------------------------------------------------------
(* The rule aggregator: requestValidator *)

newRequestValidator(traits, state) ==
    [traits |-> traits,
     state |-> state,
     Roles |-> [Allow |-> <<>>, Deny |-> <<>>],
     Annotations |-> [Allow |-> EmptyMap, Deny |-> EmptyMap]]

RECURSIVE appendMatchers(_, _)
\* appendMatcher that passes over a pattern whose matcher cannot be built
appendMatcher_SkipMalformed(list, md, rest) ==
    IF md.err # Nil THEN appendMatchers(list, rest)
    ELSE appendMatchers(Append(list, md), rest)

\* the matcher loops of one half of push, over the literal patterns and then
\* the patterns of the trait mappings: a matcher per pattern is appended to
\* list, up to the first pattern whose matcher cannot be built
appendMatcher(list, md, rest) ==
    IF md.err # Nil THEN [err |-> md.err, list |-> list]
    ELSE appendMatchers(Append(list, md), rest)

appendMatchers(list, patterns) ==
    IF patterns = <<>> THEN [err |-> Nil, list |-> list]
    ELSE appendMatcher(list, NewMatcher(Head(patterns)), Tail(patterns))

\* what one template contributes: its expansion, or nothing when it fails
appliedOrSkipped(applied) == IF applied.err # Nil THEN <<>> ELSE applied.vals

RECURSIVE appliedValues(_, _)
\* appliedValues that leaves the loop at the first template that fails to expand
appliedValues_StopAtFailure(templates, traits) ==
    IF templates = <<>> THEN <<>>
    ELSE IF applyValueTraits(Head(templates), traits).err # Nil THEN <<>>
    ELSE applyValueTraits(Head(templates), traits).vals
             \o appliedValues(Tail(templates), traits)

\* the inner loop of an annotation block: the expansions of the templates of
\* one key, a template that fails to expand being skipped
appliedValues(templates, traits) ==
    IF templates = <<>> THEN <<>>
    ELSE appliedOrSkipped(applyValueTraits(Head(templates), traits))
             \o appliedValues(Tail(templates), traits)

\* appendAnnotations that assigns the expanded values to the key
appendAnnotations_Replace(acc, annotations, traits) ==
    [k \in DOMAIN acc \cup DOMAIN annotations |->
        IF k \in DOMAIN annotations
        THEN appliedValues(annotations[k], traits)
        ELSE acc[k]]

\* one annotation block of push: under every key of the role's annotations the
\* expanded values are appended to what the accumulator holds for the key
appendAnnotations(acc, annotations, traits) ==
    [k \in DOMAIN acc \cup DOMAIN annotations |->
        IF k \in DOMAIN annotations
        THEN MapGet(acc, k) \o appliedValues(annotations[k], traits)
        ELSE acc[k]]

\* the deny half of push: d is what the deny matcher loops return; the deny
\* annotations are added when the loops succeed and the state is PENDING
pushDeny(m, role, d) ==
    IF d.err # Nil THEN [err |-> d.err, m |-> [m EXCEPT !.Roles.Deny = d.list]]
    ELSE IF IsPending(m.state)
    THEN [err |-> Nil,
          m |-> [m EXCEPT !.Roles.Deny = d.list,
                          !.Annotations.Deny =
                              appendAnnotations(@, role.deny.annotations, m.traits)]]
    ELSE [err |-> Nil, m |-> [m EXCEPT !.Roles.Deny = d.list]]

\* pushAllow that keeps the allow matchers of the role pushed last only
pushAllow_Overwrite(m, role, a) ==
    IF a.err # Nil THEN [err |-> a.err, m |-> [m EXCEPT !.Roles.Allow = a.list]]
    ELSE [err |-> Nil,
          m |-> [m EXCEPT !.Roles.Allow = SubSeq(a.list, Len(@) + 1, Len(a.list)),
                          !.Annotations.Allow =
                              IF IsPending(m.state)
                              THEN appendAnnotations(@, role.allow.annotations, m.traits)
                              ELSE @]]

\* the allow half of push, a being what the allow matcher loops return
pushAllow(m, role, a) ==
    IF a.err # Nil THEN [err |-> a.err, m |-> [m EXCEPT !.Roles.Allow = a.list]]
    ELSE IF IsPending(m.state)
    THEN [err |-> Nil,
          m |-> [m EXCEPT !.Roles.Allow = a.list,
                          !.Annotations.Allow =
                              appendAnnotations(@, role.allow.annotations, m.traits)]]
    ELSE [err |-> Nil, m |-> [m EXCEPT !.Roles.Allow = a.list]]

\* the allow half runs when the deny half returned no error
pushRest(denied, role) ==
    IF denied.err # Nil THEN denied
    ELSE pushAllow(denied.m, role,
                   appendMatchers(denied.m.Roles.Allow,
                                  role.allow.roles
                                      \o TraitsToRoles(role.allow.claims, denied.m.traits)))

\* push(role): the deny half, then the allow half; returns the error and the
\* aggregator as the call leaves it (partly filled when it fails)
push(m, role) ==
    pushRest(pushDeny(m, role,
                      appendMatchers(m.Roles.Deny,
                                     role.deny.roles
                                         \o TraitsToRoles(role.deny.claims, m.traits))),
             role)

\* a matcher loop of CanRequestRole: whether some matcher of the list matches
RECURSIVE anyMatch(_, _)
anyMatch(list, name) ==
    IF list = <<>> THEN FALSE
    ELSE IF Match(Head(list), name) THEN TRUE
    ELSE anyMatch(Tail(list), name)

\* CanRequestRole with the two loops in the other order: an allow match wins
CanRequestRole_AllowFirst(m, name) ==
    IF anyMatch(m.Roles.Allow, name) THEN TRUE
    ELSE IF anyMatch(m.Roles.Deny, name) THEN FALSE
    ELSE FALSE

\* CanRequestRole that allows what no rule mentions
CanRequestRole_DefaultAllow(m, name) ==
    IF anyMatch(m.Roles.Deny, name) THEN FALSE
    ELSE IF anyMatch(m.Roles.Allow, name) THEN TRUE
    ELSE TRUE

CanRequestRole(m, name) ==
    IF anyMatch(m.Roles.Deny, name) THEN FALSE
    ELSE IF anyMatch(m.Roles.Allow, name) THEN TRUE
    ELSE FALSE

\* filtered that drops an allow value found among the deny values of any key
filtered_AnyKey(m, k) ==
    SelectSeq(m.Annotations.Allow[k],
              LAMBDA v : \A d \in DOMAIN m.Annotations.Deny :
                             ~SliceContainsStr(m.Annotations.Deny[d], v))

\* the allow values of key k that the deny values of k do not hold
filtered(m, k) ==
    SelectSeq(m.Annotations.Allow[k],
              LAMBDA v : ~SliceContainsStr(MapGet(m.Annotations.Deny, k), v))

\* SystemAnnotations without the skip of a key whose filtered list is empty
SystemAnnotations_KeepEmpty(m) ==
    [k \in DOMAIN m.Annotations.Allow |-> filtered(m, k)]

SystemAnnotations(m) ==
    LET kept == {k \in DOMAIN m.Annotations.Allow : Len(filtered(m, k)) # 0}
    IN  [k \in kept |-> filtered(m, k)]

-----------------------------------------------------------------------------
(* The aggregator on its own: a fresh requestValidator and pushes into it *)

NoUsers == EmptyMap

\* the zero value of AccessRequestV3: no kind, no version, no name (the id)
NoRequest ==
    [kind |-> "", version |-> "", name |-> "",
     user |-> "", roles |-> <<>>, state |-> RequestState_NONE, requestReason |-> "",
     resolveReason |-> "", resolveAnnotations |-> EmptyMap, systemAnnotations |-> EmptyMap]

\* the record of a call: what it was given (expandRoles and whether the role
\* listing of the getter succeeds, or the target state), what it returned,
\* and the request before and after it
returned(op, res, expandRoles, listOK, target, before) ==
    [op |-> op, err |-> res.err, step |-> res.step, expandRoles |-> expandRoles,
     listOK |-> listOK, target |-> target, listed |-> res.listed,
     before |-> before, after |-> res.req]

NoCall ==
    returned("", [err |-> Nil, step |-> "", listed |-> FALSE, req |-> NoRequest],
             FALSE, FALSE, RequestState_NONE, NoRequest)

InitPush ==
    /\ \E traits \in TraitChoices, state \in stateVariants :
           validator = newRequestValidator(traits, state)
    /\ pushed = <<>>
    /\ pushErr = Nil
    /\ calls = <<>>
    /\ validators = <<>>
    /\ arg = <<>>
    /\ cmd = <<>>
    /\ store = <<>>
    /\ scaling = <<>>
    /\ users = NoUsers
    /\ req = NoRequest
    /\ pc = "push"
    /\ ret = NoCall

\* push(role) into the aggregator; no role is pushed after a push that failed
Push(name) ==
    /\ pushErr = Nil
    /\ Len(pushed) < MaxPush
    /\ validator' = push(validator, RoleByName(name)).m
    /\ pushErr' = push(validator, RoleByName(name)).err
    /\ pushed' = Append(pushed, name)
    /\ UNCHANGED <<users, req, pc, ret, calls, validators, arg, cmd, store, scaling>>

NextPush == \E name \in RoleNames : Push(name)

SpecPush == InitPush /\ [][NextPush]_vars

\* the roles of a list pushed in order into the aggregator m, up to the
\* first push that fails
RECURSIVE pushAll(_, _)
pushNext(res, rest) == IF res.err # Nil THEN res ELSE pushAll(res.m, rest)

pushAll(m, names) ==
    IF names = <<>> THEN [err |-> Nil, m |-> m]
    ELSE pushNext(push(m, RoleByName(Head(names))), Tail(names))

\* the roles whose push returned nil
Succeeded == IF pushErr = Nil THEN pushed ELSE SubSeq(pushed, 1, Len(pushed) - 1)

-----------------------------------------------------------------------------
(* ValidateAccessRequest *)

RECURSIVE pushHeld(_, _, _)
\* heldPushed that asks for a reason for every strategy but "optional"
heldPushed_AlwaysNeedsReason(res, role, rest, requireReason) ==
    IF res.err # Nil
    THEN [err |-> res.err, step |-> "push", m |-> res.m, requireReason |-> requireReason]
    ELSE pushHeld(res.m, rest, requireReason \/ role.requestAccess # RequestStrategyOptional)

\* the rest of the loop body once the role is fetched and pushed, res being
\* what push returned: a role whose RequestAccess is "reason" sets requireReason
heldPushed(res, role, rest, requireReason) ==
    IF res.err # Nil
    THEN [err |-> res.err, step |-> "push", m |-> res.m, requireReason |-> requireReason]
    ELSE pushHeld(res.m, rest, requireReason \/ role.requestAccess = RequestStrategyReason)

\* pushHeld that passes over a held role that is not stored
pushHeld_SkipMissing(m, held, requireReason) ==
    IF held = <<>>
    THEN [err |-> Nil, step |-> "", m |-> m, requireReason |-> requireReason]
    ELSE IF Head(held) \notin RoleNames
    THEN pushHeld(m, Tail(held), requireReason)
    ELSE heldPushed(push(m, RoleByName(Head(held))), RoleByName(Head(held)),
                    Tail(held), requireReason)

\* the loop over the roles the user holds: each is fetched and pushed; stops
\* at the first lookup or push that fails
pushHeld(m, held, requireReason) ==
    IF held = <<>>
    THEN [err |-> Nil, step |-> "", m |-> m, requireReason |-> requireReason]
    ELSE IF Head(held) \notin RoleNames
    THEN [err |-> NotFound, step |-> "role", m |-> m, requireReason |-> requireReason]
    ELSE heldPushed(push(m, RoleByName(Head(held))), RoleByName(Head(held)),
                    Tail(held), requireReason)

\* the test that opens the wildcard block: the role list is the single entry "*"
isWildcard(roles) == Len(roles) = 1 /\ roles[1] = WILDCARD

\* expandedRoles without the test for the roles already held
expandedRoles_KeepHeld(m, allRoles, held) ==
    LET names == [i \in 1..Len(allRoles) |-> allRoles[i].name]
    IN  SelectSeq(names, LAMBDA n : CanRequestRole(m, n))

\* expandedRoles without the test of CanRequestRole
expandedRoles_AllNotHeld(m, allRoles, held) ==
    LET names == [i \in 1..Len(allRoles) |-> allRoles[i].name]
    IN  SelectSeq(names, LAMBDA n : n \notin Range(held))

\* the expansion loop: the names of the listed roles that are not held and
\* that CanRequestRole accepts, in the order of the listing
expandedRoles(m, allRoles, held) ==
    LET names == [i \in 1..Len(allRoles) |-> allRoles[i].name]
    IN  SelectSeq(names, LAMBDA n : n \notin Range(held) /\ CanRequestRole(m, n))

\* resolveWildcard that expands whether or not roles are to be expanded
resolveWildcard_IgnoreFlag(m, r, held, expandRoles, listOK) ==
    IF ~isWildcard(r.roles)
    THEN [err |-> Nil, step |-> "", req |-> r, listed |-> FALSE]
    ELSE IF ~listOK
    THEN [err |-> NotFound, step |-> "list", req |-> r, listed |-> TRUE]
    ELSE [err |-> Nil, step |-> "",
          req |-> [r EXCEPT !.roles = expandedRoles(m, AllRoles, held)], listed |-> TRUE]

\* resolveWildcard that puts the expansion into a request built anew for the
\* user, PENDING and without a reason
resolveWildcard_Rebuild(m, r, held, expandRoles, listOK) ==
    IF ~isWildcard(r.roles)
    THEN [err |-> Nil, step |-> "", req |-> r, listed |-> FALSE]
    ELSE IF ~expandRoles
    THEN [err |-> BadParameter, step |-> "wildcard", req |-> r, listed |-> FALSE]
    ELSE IF ~listOK
    THEN [err |-> NotFound, step |-> "list", req |-> r, listed |-> TRUE]
    ELSE [err |-> Nil, step |-> "",
          req |-> [r EXCEPT !.roles = expandedRoles(m, AllRoles, held),
                            !.state = RequestState_PENDING,
                            !.requestReason = "",
                            !.resolveReason = "",
                            !.resolveAnnotations = EmptyMap],
          listed |-> TRUE]

\* the wildcard block: a request for "*" fails unless roles are to be
\* expanded, then lists the roles (which may fail) and replaces the role list
resolveWildcard(m, r, held, expandRoles, listOK) ==
    IF ~isWildcard(r.roles)
    THEN [err |-> Nil, step |-> "", req |-> r, listed |-> FALSE]
    ELSE IF ~expandRoles
    THEN [err |-> BadParameter, step |-> "wildcard", req |-> r, listed |-> FALSE]
    ELSE IF ~listOK
    THEN [err |-> NotFound, step |-> "list", req |-> r, listed |-> TRUE]
    ELSE [err |-> Nil, step |-> "",
          req |-> [r EXCEPT !.roles = expandedRoles(m, AllRoles, held)], listed |-> TRUE]

\* admitted that looks at the first requested name only
admitted_FirstOnly(m, roles) == roles = <<>> \/ CanRequestRole(m, roles[1])

\* admitted that refuses a role list without entries
admitted_NeedsRole(m, roles) ==
    roles # <<>> /\ \A i \in 1..Len(roles) : CanRequestRole(m, roles[i])

\* the admission loop: the first requested name CanRequestRole refuses fails the call
admitted(m, roles) == \A i \in 1..Len(roles) : CanRequestRole(m, roles[i])

\* attachAnnotations without the test for a pending request
attachAnnotations_Always(m, r) == [r EXCEPT !.systemAnnotations = SystemAnnotations(m)]

\* attachAnnotations that adds the values to the ones the request carries
attachAnnotations_Append(m, r) ==
    IF IsPending(r.state)
    THEN [r EXCEPT !.systemAnnotations =
                       [k \in DOMAIN @ \cup DOMAIN SystemAnnotations(m) |->
                           MapGet(@, k) \o MapGet(SystemAnnotations(m), k)]]
    ELSE r

\* the last step: a pending request gets the aggregator's system annotations
attachAnnotations(m, r) ==
    IF IsPending(r.state)
    THEN [r EXCEPT !.systemAnnotations = SystemAnnotations(m)]
    ELSE r

\* the end of ValidateAccessRequest, wild being what the wildcard block
\* returned: the admission loop, then the annotations
admitAndAnnotate(m, wild) ==
    IF wild.err # Nil THEN wild
    ELSE IF ~admitted(m, wild.req.roles)
    THEN [err |-> BadParameter, step |-> "admission", req |-> wild.req,
          listed |-> wild.listed]
    ELSE [err |-> Nil, step |-> "", req |-> attachAnnotations(m, wild.req),
          listed |-> wild.listed]

\* validateHeld that refuses a wildcard without expansion before it looks at
\* the reason
validateHeld_WildcardFirst(acc, user, r, expandRoles, listOK) ==
    IF acc.err # Nil
    THEN [err |-> acc.err, step |-> acc.step, req |-> r, listed |-> FALSE]
    ELSE IF isWildcard(r.roles) /\ ~expandRoles
    THEN [err |-> BadParameter, step |-> "wildcard", req |-> r, listed |-> FALSE]
    ELSE IF acc.requireReason /\ r.requestReason = ""
    THEN [err |-> BadParameter, step |-> "reason", req |-> r, listed |-> FALSE]
    ELSE admitAndAnnotate(acc.m, resolveWildcard(acc.m, r, user.roles, expandRoles, listOK))

\* ValidateAccessRequest after the held-role loop, acc being what the loop
\* returned: the reason check, the wildcard block and the rest
validateHeld(acc, user, r, expandRoles, listOK) ==
    IF acc.err # Nil
    THEN [err |-> acc.err, step |-> acc.step, req |-> r, listed |-> FALSE]
    ELSE IF acc.requireReason /\ r.requestReason = ""
    THEN [err |-> BadParameter, step |-> "reason", req |-> r, listed |-> FALSE]
    ELSE admitAndAnnotate(acc.m, resolveWildcard(acc.m, r, user.roles, expandRoles, listOK))

\* ValidateAccessRequest(getter, req, expandRoles), the getter being the
\* stored users, the stored roles and whether the role listing succeeds.
\* Returns the error, the step that failed, the request as the call leaves
\* it, and whether the role listing was consulted.
ValidateAccessRequest(stored, r, expandRoles, listOK) ==
    IF r.user \notin DOMAIN stored
    THEN [err |-> NotFound, step |-> "user", req |-> r, listed |-> FALSE]
    ELSE validateHeld(pushHeld(newRequestValidator(stored[r.user].traits, r.state),
                               stored[r.user].roles, FALSE),
                      stored[r.user], r, expandRoles, listOK)

-----------------------------------------------------------------------------
(* The request record: AccessRequestV3 *)

KindAccessRequest == "access_request"

V3 == "v3"

\* the id uuid.New() gives a request, and the names uuid.Parse accepts
NewUUID == "3f0c9c5e-0f4e-4d0b-9c3c-1d2b7a6e5f10"

IsUUID(name) == name = NewUUID

IsNone(s) == s = RequestState_NONE

\* SetState without the test for a denied request
SetState_Overwrite(r, state) == [err |-> Nil, req |-> [r EXCEPT !.state = state]]

\* SetState that holds an approved request in its state as well
SetState_ApprovedFinal(r, state) ==
    IF IsDenied(r.state) \/ r.state = RequestState_APPROVED
    THEN (IF state = r.state THEN [err |-> Nil, req |-> r]
          ELSE [err |-> BadParameter, req |-> r])
    ELSE [err |-> Nil, req |-> [r EXCEPT !.state = state]]

\* SetState: a denied request accepts DENIED again and nothing else
SetState(r, state) ==
    IF IsDenied(r.state)
    THEN (IF IsDenied(state) THEN [err |-> Nil, req |-> r]
          ELSE [err |-> BadParameter, req |-> r])
    ELSE [err |-> Nil, req |-> [r EXCEPT !.state = state]]

\* Check without the test of the role list
Check_NoRoleTest(r) ==
    IF r.kind = "" THEN [err |-> BadParameter, step |-> "kind"]
    ELSE IF r.version = "" THEN [err |-> BadParameter, step |-> "version"]
    ELSE IF r.name = "" THEN [err |-> BadParameter, step |-> "id"]
    ELSE IF ~IsUUID(r.name) THEN [err |-> BadParameter, step |-> "invalid id"]
    ELSE IF r.user = "" THEN [err |-> BadParameter, step |-> "user"]
    ELSE IF IsPending(r.state) /\ r.resolveReason # ""
    THEN [err |-> BadParameter, step |-> "resolve reason"]
    ELSE IF IsPending(r.state) /\ DOMAIN r.resolveAnnotations # {}
    THEN [err |-> BadParameter, step |-> "resolve annotations"]
    ELSE [err |-> Nil, step |-> ""]

\* Check without the tests of the resolve data of a pending request
Check_NoResolveTest(r) ==
    IF r.kind = "" THEN [err |-> BadParameter, step |-> "kind"]
    ELSE IF r.version = "" THEN [err |-> BadParameter, step |-> "version"]
    ELSE IF r.name = "" THEN [err |-> BadParameter, step |-> "id"]
    ELSE IF ~IsUUID(r.name) THEN [err |-> BadParameter, step |-> "invalid id"]
    ELSE IF r.user = "" THEN [err |-> BadParameter, step |-> "user"]
    ELSE IF Len(r.roles) < 1 THEN [err |-> BadParameter, step |-> "roles"]
    ELSE [err |-> Nil, step |-> ""]

\* Check: the error and the test that failed
Check(r) ==
    IF r.kind = "" THEN [err |-> BadParameter, step |-> "kind"]
    ELSE IF r.version = "" THEN [err |-> BadParameter, step |-> "version"]
    ELSE IF r.name = "" THEN [err |-> BadParameter, step |-> "id"]
    ELSE IF ~IsUUID(r.name) THEN [err |-> BadParameter, step |-> "invalid id"]
    ELSE IF r.user = "" THEN [err |-> BadParameter, step |-> "user"]
    ELSE IF Len(r.roles) < 1 THEN [err |-> BadParameter, step |-> "roles"]
    ELSE IF IsPending(r.state) /\ r.resolveReason # ""
    THEN [err |-> BadParameter, step |-> "resolve reason"]
    ELSE IF IsPending(r.state) /\ DOMAIN r.resolveAnnotations # {}
    THEN [err |-> BadParameter, step |-> "resolve annotations"]
    ELSE [err |-> Nil, step |-> ""]

\* Metadata.CheckAndSetDefaults (lib/services/resource.go, not among the
\* sources): a resource without a name is refused
MetadataCheckAndSetDefaults(r) ==
    IF r.name = "" THEN [err |-> BadParameter, step |-> "metadata"]
    ELSE [err |-> Nil, step |-> ""]

\* the default of the state: SetState(PENDING) on a request in state NONE
stateDefaulted(r) ==
    IF IsNone(r.state) THEN SetState(r, RequestState_PENDING)
    ELSE [err |-> Nil, req |-> r]

\* the end of CheckAndSetDefaults, set being what the state default returned
checkDefaulted(set) ==
    IF set.err # Nil THEN [err |-> set.err, step |-> "state", req |-> set.req]
    ELSE [err |-> Check(set.req).err, step |-> Check(set.req).step, req |-> set.req]

\* CheckAndSetDefaults that leaves the state NONE
CheckAndSetDefaults_NoDefault(r) ==
    IF MetadataCheckAndSetDefaults(r).err # Nil
    THEN [err |-> MetadataCheckAndSetDefaults(r).err, step |-> "metadata", req |-> r]
    ELSE checkDefaulted([err |-> Nil, req |-> r])

\* CheckAndSetDefaults: the error, the test that failed, and the request as
\* the call leaves it
CheckAndSetDefaults(r) ==
    IF MetadataCheckAndSetDefaults(r).err # Nil
    THEN [err |-> MetadataCheckAndSetDefaults(r).err, step |-> "metadata", req |-> r]
    ELSE checkDefaulted(stateDefaulted(r))

\* the request NewAccessRequest assembles before it checks it
assembled(user, roles) ==
    [kind |-> KindAccessRequest, version |-> V3, name |-> NewUUID,
     user |-> user, roles |-> roles, state |-> RequestState_PENDING, requestReason |-> "",
     resolveReason |-> "", resolveAnnotations |-> EmptyMap, systemAnnotations |-> EmptyMap]

\* what NewAccessRequest returns, res being what CheckAndSetDefaults
\* returned: no request when the check fails
assembledChecked(res) ==
    IF res.err # Nil THEN [err |-> res.err, step |-> res.step, req |-> NoRequest]
    ELSE res

NewAccessRequest(user, roles) == assembledChecked(CheckAndSetDefaults(assembled(user, roles)))

SetRequestReason(r, reason) == [r EXCEPT !.requestReason = reason]

SetSystemAnnotations(r, annotations) == [r EXCEPT !.systemAnnotations = annotations]

SetResolveReason(r, reason) == [r EXCEPT !.resolveReason = reason]

SetResolveAnnotations(r, annotations) == [r EXCEPT !.resolveAnnotations = annotations]

-----------------------------------------------------------------------------
(* Validation of a stored request: Spec *)

\* the requesting user
Alice == "alice"

\* lists without a repeated entry
NoRepeat(s) == \A i, j \in 1..Len(s) : i # j => s[i] # s[j]

HeldLists == {h \in SeqsOf(HeldNames, 0, MaxHeld) : NoRepeat(h)}

\* the users the store may hold: no user at all, or the requesting user
\* with the roles held and the traits bound
UserStores ==
    {NoUsers} \cup
    {Alice :> [roles |-> h, traits |-> t] : h \in HeldLists, t \in TraitChoices}

\* the entries of a request's role list as a client writes it
RequestNames == {WILDCARD, devInfra, devSecret}

Reasons == {"", "on call"}

\* system annotations that an earlier validation left on the request
StaleAnnotations == "team" :> <<"old">>

\* what the resolution workflow records on a request it approves or denies
ResolveReason == "reviewed"

ResolveAnnotations == "ticket" :> <<"42">>

\* an APPROVED or DENIED request carries the reason and the annotations of
\* its resolution
resolved(r) ==
    IF r.state \in {RequestState_APPROVED, RequestState_DENIED}
    THEN SetResolveAnnotations(SetResolveReason(r, ResolveReason), ResolveAnnotations)
    ELSE r

\* a request as the store holds it when it is validated: built by
\* NewAccessRequest, its reason set by the requester, its state set by SetState
\* (with the resolve data of a resolution) and its system annotations by an
\* earlier validation
StoredRequests ==
    { SetSystemAnnotations(
          resolved(SetState(SetRequestReason(NewAccessRequest(Alice, roles).req, reason),
                            state).req),
          sa) :
        roles \in SeqsOf(RequestNames, 1, MaxReq), reason \in Reasons,
        state \in stateVariants, sa \in {EmptyMap, StaleAnnotations} }

Init ==
    /\ users \in UserStores
    /\ req \in StoredRequests
    /\ pc = "new"
    /\ ret = NoCall
    /\ validator = newRequestValidator(EmptyMap, RequestState_NONE)
    /\ pushed = <<>>
    /\ pushErr = Nil
    /\ calls = <<>>
    /\ validators = <<>>
    /\ arg = <<>>
    /\ cmd = <<>>
    /\ store = <<>>
    /\ scaling = <<>>

\* one call of ValidateAccessRequest on the request
Validate(expandRoles, listOK) ==
    /\ pc = "new"
    /\ ret' = returned("Validate", ValidateAccessRequest(users, req, expandRoles, listOK),
                       expandRoles, listOK, RequestState_NONE, req)
    /\ req' = ret'.after
    /\ pc' = "validated"
    /\ UNCHANGED <<users, validator, pushed, pushErr, calls, validators, arg, cmd, store, scaling>>

\* a second call of ValidateAccessRequest, on the request a successful first
\* call left, with the same stored users and roles
Revalidate(expandRoles, listOK) ==
    /\ pc = "validated"
    /\ ret.err = Nil
    /\ ret' = returned("Revalidate", ValidateAccessRequest(users, req, expandRoles, listOK),
                       expandRoles, listOK, RequestState_NONE, req)
    /\ req' = ret'.after
    /\ pc' = "revalidated"
    /\ UNCHANGED <<users, validator, pushed, pushErr, calls, validators, arg, cmd, store, scaling>>

Next ==
    \E expandRoles \in BOOLEAN, listOK \in BOOLEAN :
        \/ Validate(expandRoles, listOK)
        \/ Revalidate(expandRoles, listOK)

Spec == Init /\ [][Next]_vars

-----------------------------------------------------------------------------
(* State transitions of a request: SpecState *)

\* a request as NewAccessRequest builds it, with the reason the requester gives
NewRequests ==
    { SetRequestReason(NewAccessRequest(Alice, roles).req, reason) :
        roles \in SeqsOf(RequestNames, 1, MaxReq), reason \in Reasons }

InitState ==
    /\ req \in NewRequests
    /\ users = NoUsers
    /\ pc = "state"
    /\ ret = NoCall
    /\ validator = newRequestValidator(EmptyMap, RequestState_NONE)
    /\ pushed = <<>>
    /\ pushErr = Nil
    /\ calls = <<>>
    /\ validators = <<>>
    /\ arg = <<>>
    /\ cmd = <<>>
    /\ store = <<>>
    /\ scaling = <<>>

\* one call of SetState on the request
SetStateCall(state) ==
    /\ pc = "state"
    /\ ret' = returned("SetState", SetState(req, state) @@ [step |-> "", listed |-> FALSE],
                       FALSE, FALSE, state, req)
    /\ req' = ret'.after
    /\ UNCHANGED <<users, pc, validator, pushed, pushErr, calls, validators, arg, cmd, store,
                   scaling>>

NextState == \E state \in stateVariants : SetStateCall(state)

SpecState == InitState /\ [][NextState]_vars

-----------------------------------------------------------------------------
(* The persistence-time check of a request: SpecCheck *)

\* the request that a wildcard expansion has left without roles: a new
\* request for "*", validated with expansion for a user who holds no role
EmptiedByExpansion ==
    ValidateAccessRequest(Alice :> [roles |-> <<>>, traits |-> EmptyMap],
                          NewAccessRequest(Alice, <<WILDCARD>>).req, TRUE, TRUE).req

\* the requests handed to the check: as a client or the store may present
\* them, with or without kind, version, id, user, roles and resolve data
CheckedRequests ==
    { [kind |-> kind, version |-> version, name |-> name,
       user |-> user, roles |-> roles, state |-> state, requestReason |-> "",
       resolveReason |-> rr, resolveAnnotations |-> ra, systemAnnotations |-> EmptyMap] :
        kind \in {KindAccessRequest, ""}, version \in {V3, ""},
        name \in {NewUUID, "", "not-an-id"}, user \in {Alice, ""},
        roles \in SeqsOf(RequestNames, 0, MaxReq), state \in stateVariants,
        rr \in {"", ResolveReason}, ra \in {EmptyMap, ResolveAnnotations} }
    \cup {EmptiedByExpansion}

InitCheck ==
    /\ req \in CheckedRequests
    /\ users = NoUsers
    /\ pc = "check"
    /\ ret = NoCall
    /\ validator = newRequestValidator(EmptyMap, RequestState_NONE)
    /\ pushed = <<>>
    /\ pushErr = Nil
    /\ calls = <<>>
    /\ validators = <<>>
    /\ arg = <<>>
    /\ cmd = <<>>
    /\ store = <<>>
    /\ scaling = <<>>

\* one call of Check on the request
CheckCall ==
    /\ pc = "check"
    /\ ret' = returned("Check", Check(req) @@ [listed |-> FALSE, req |-> req],
                       FALSE, FALSE, RequestState_NONE, req)
    /\ UNCHANGED <<req, users, pc, validator, pushed, pushErr, calls, validators, arg, cmd,
                   store, scaling>>

\* one call of CheckAndSetDefaults on the request
CheckAndSetDefaultsCall ==
    /\ pc = "check"
    /\ ret' = returned("CheckAndSetDefaults", CheckAndSetDefaults(req) @@ [listed |-> FALSE],
                       FALSE, FALSE, RequestState_NONE, req)
    /\ req' = ret'.after
    /\ UNCHANGED <<users, pc, validator, pushed, pushErr, calls, validators, arg, cmd, store,
                   scaling>>

\* one call of NewAccessRequest; the request it returns replaces the one at hand
NewAccessRequestCall(user, roles) ==
    /\ pc = "check"
    /\ ret' = returned("NewAccessRequest", NewAccessRequest(user, roles) @@ [listed |-> FALSE],
                       FALSE, FALSE, RequestState_NONE,
                       [NoRequest EXCEPT !.user = user, !.roles = roles])
    /\ req' = ret'.after
    /\ UNCHANGED <<users, pc, validator, pushed, pushErr, calls, validators, arg, cmd, store,
                   scaling>>

NextCheck ==
    \/ CheckCall
    \/ CheckAndSetDefaultsCall
    \/ \E user \in {Alice, ""}, roles \in SeqsOf(RequestNames, 0, MaxReq) :
           NewAccessRequestCall(user, roles)

SpecCheck == InitCheck /\ [][NextCheck]_vars

-----------------------------------------------------------------------------
(* Concurrent invocations of ValidateAccessRequest: SpecConc.  Each        *)
(* invocation runs the statements of the function one getter call or one   *)
(* test at a time, interleaved with the other; the stored users and roles  *)
(* are only read.                                                          *)

Invocations == {1, 2}

\* the aggregator of all invocations: one instance for the package
aggregatorOf_Shared(i) == 1

\* the aggregator an invocation uses: the local variable validator, which
\* newRequestValidator fills with a new value in each invocation
aggregatorOf(i) == i

\* an invocation at its first statement, given the request and expandRoles
newCall(r, expandRoles) ==
    [pc |-> "user", given |-> r, req |-> r, expandRoles |-> expandRoles,
     held |-> <<>>, requireReason |-> FALSE, err |-> Nil, step |-> ""]

\* the invocation returns the error
failed(c, err, step) == [c EXCEPT !.pc = "done", !.err = err, !.step = step]

\* the requests of the concurrent invocations: new requests for "*" or for
\* one role, with or without a reason
ConcRequests ==
    { SetRequestReason(NewAccessRequest(Alice, roles).req, reason) :
        roles \in {<<WILDCARD>>, <<devInfra>>}, reason \in Reasons }

\* the stored user of the concurrent invocations
ConcUserStores ==
    {Alice :> [roles |-> h, traits |-> t] : h \in HeldLists, t \in TraitChoices}

InitConc ==
    /\ users \in ConcUserStores
    /\ calls \in [Invocations -> {newCall(r, e) : r \in ConcRequests, e \in BOOLEAN}]
    /\ validators = [i \in Invocations |-> newRequestValidator(EmptyMap, RequestState_NONE)]
    /\ arg = <<>>
    /\ cmd = <<>>
    /\ store = <<>>
    /\ scaling = <<>>
    /\ req = NoRequest
    /\ pc = "concurrent"
    /\ ret = NoCall
    /\ validator = newRequestValidator(EmptyMap, RequestState_NONE)
    /\ pushed = <<>>
    /\ pushErr = Nil

\* lines 426-432: the user is fetched and the aggregator allocated
GetUserStep(i) ==
    /\ calls[i].pc = "user"
    /\ IF calls[i].req.user \notin DOMAIN users
       THEN /\ calls' = [calls EXCEPT ![i] = failed(@, NotFound, "user")]
            /\ UNCHANGED validators
       ELSE /\ calls' = [calls EXCEPT ![i].pc = "held",
                                      ![i].held = users[calls[i].req.user].roles]
            /\ validators' =
                   [validators EXCEPT ![aggregatorOf(i)] =
                       newRequestValidator(users[calls[i].req.user].traits,
                                           calls[i].req.state)]
    /\ UNCHANGED <<validator, pushed, pushErr, users, req, pc, ret, arg, cmd, store, scaling>>

\* the invocation after the push of the held role, err being what push returned
heldStepped(c, err, role) ==
    IF err # Nil THEN failed(c, err, "push")
    ELSE [c EXCEPT !.held = Tail(@),
                   !.requireReason = @ \/ role.requestAccess = RequestStrategyReason]

\* lines 434-445, one iteration: the next held role is fetched and pushed
HeldRoleStep(i) ==
    /\ calls[i].pc = "held"
    /\ calls[i].held # <<>>
    /\ IF Head(calls[i].held) \notin RoleNames
       THEN /\ calls' = [calls EXCEPT ![i] = failed(@, NotFound, "role")]
            /\ UNCHANGED validators
       ELSE /\ validators' =
                   [validators EXCEPT ![aggregatorOf(i)] =
                       push(@, RoleByName(Head(calls[i].held))).m]
            /\ calls' =
                   [calls EXCEPT ![i] =
                       heldStepped(@, push(validators[aggregatorOf(i)],
                                           RoleByName(Head(calls[i].held))).err,
                                   RoleByName(Head(calls[i].held)))]
    /\ UNCHANGED <<validator, pushed, pushErr, users, req, pc, ret, arg, cmd, store, scaling>>

\* lines 447-449: the reason test, once the loop over the held roles has ended
ReasonStep(i) ==
    /\ calls[i].pc = "held"
    /\ calls[i].held = <<>>
    /\ calls' = [calls EXCEPT ![i] =
                    IF @.requireReason /\ @.req.requestReason = ""
                    THEN failed(@, BadParameter, "reason")
                    ELSE [@ EXCEPT !.pc = "wildcard"]]
    /\ UNCHANGED <<validators, validator, pushed, pushErr, users, req, pc, ret, arg, cmd,
                   store, scaling>>

\* the invocation after the wildcard block, wild being what the block returned
wildStepped(c, wild) ==
    IF wild.err # Nil THEN failed(c, wild.err, wild.step)
    ELSE [c EXCEPT !.req = wild.req, !.pc = "admit"]

\* lines 451-471: the wildcard block; the role listing of the getter succeeds
WildcardStep(i) ==
    /\ calls[i].pc = "wildcard"
    /\ calls' = [calls EXCEPT ![i] =
                    wildStepped(@, resolveWildcard(validators[aggregatorOf(i)], @.req,
                                                   users[@.req.user].roles,
                                                   @.expandRoles, TRUE))]
    /\ UNCHANGED <<validators, validator, pushed, pushErr, users, req, pc, ret, arg, cmd,
                   store, scaling>>

\* lines 473-477: the admission loop
AdmitStep(i) ==
    /\ calls[i].pc = "admit"
    /\ calls' = [calls EXCEPT ![i] =
                    IF ~admitted(validators[aggregatorOf(i)], @.req.roles)
                    THEN failed(@, BadParameter, "admission")
                    ELSE [@ EXCEPT !.pc = "annotate"]]
    /\ UNCHANGED <<validators, validator, pushed, pushErr, users, req, pc, ret, arg, cmd,
                   store, scaling>>

\* lines 479-483: the annotations and the return
AnnotateStep(i) ==
    /\ calls[i].pc = "annotate"
    /\ calls' = [calls EXCEPT ![i].req = attachAnnotations(validators[aggregatorOf(i)], @),
                              ![i].pc = "done"]
    /\ UNCHANGED <<validators, validator, pushed, pushErr, users, req, pc, ret, arg, cmd,
                   store, scaling>>

NextConc ==
    \E i \in Invocations :
        \/ GetUserStep(i)
        \/ HeldRoleStep(i)
        \/ ReasonStep(i)
        \/ WildcardStep(i)
        \/ AdmitStep(i)
        \/ AnnotateStep(i)

SpecConc == InitConc /\ [][NextConc]_vars

-----------------------------------------------------------------------------
(* AccessRequestUpdate (lines 150-169) *)

IsApproved(s) == s = RequestState_APPROVED

\* Check that lets roles be overridden by any update that leaves PENDING
AccessRequestUpdate_Check_AnyResolution(u) ==
    IF u.RequestID = "" THEN BadParameter
    ELSE IF IsNone(u.State) THEN BadParameter
    ELSE IF Len(u.Roles) > 0 /\ IsPending(u.State) THEN BadParameter
    ELSE Nil

\* AccessRequestUpdate.Check, lines 158-169
AccessRequestUpdate_Check(u) ==
    IF u.RequestID = "" THEN BadParameter
    ELSE IF IsNone(u.State) THEN BadParameter
    ELSE IF Len(u.Roles) > 0 /\ ~IsApproved(u.State) THEN BadParameter
    ELSE Nil

\* the updates a caller may build
Updates ==
    [RequestID : {"", NewUUID}, State : stateVariants, Reason : {"", ResolveReason},
     Annotations : {EmptyMap, ResolveAnnotations},
     Roles : SeqsOf({devInfra, devSecret}, 0, MaxReq)]

InitUpdate ==
    /\ validator = newRequestValidator(EmptyMap, RequestState_NONE)
    /\ pushed = <<>>
    /\ pushErr = Nil
    /\ users = NoUsers
    /\ req = NoRequest
    /\ pc = "update"
    /\ ret = NoCall
    /\ calls = <<>>
    /\ validators = <<>>
    /\ \E u \in Updates : arg = [update |-> u, called |-> FALSE, err |-> Nil]
    /\ cmd = <<>>
    /\ store = <<>>
    /\ scaling = <<>>

UpdateCheckCall ==
    /\ pc = "update"
    /\ ~arg.called
    /\ arg' = [arg EXCEPT !.called = TRUE, !.err = AccessRequestUpdate_Check(arg.update)]
    /\ UNCHANGED <<validator, pushed, pushErr, users, req, pc, ret, calls, validators, cmd,
                   store, scaling>>

NextUpdate == UpdateCheckCall

SpecUpdate == InitUpdate /\ [][NextUpdate]_vars
-----------------------------------------------------------------------------
(* AccessRequestFilter and its map form (lines 83-148).  A Go map is a     *)
(* function from its keys; ranging over it visits the keys in an order the *)
(* runtime picks, which FromMapCall draws.                                 *)

\* RequestState.String (generated with the protobuf types, not among the
\* sources): the name of the state
String(s) ==
    CASE s = RequestState_NONE -> "NONE"
      [] s = RequestState_PENDING -> "PENDING"
      [] s = RequestState_APPROVED -> "APPROVED"
      [] s = RequestState_DENIED -> "DENIED"

\* RequestState.Parse, lines 83-91: the state is assigned only when a variant
\* has the value as its name
Parse(s, val) ==
    IF \E state \in stateVariants : String(state) = val
    THEN [err |-> Nil, state |-> CHOOSE state \in stateVariants : String(state) = val]
    ELSE [err |-> BadParameter, state |-> s]

keyID == "id"
keyUser == "user"
keyState == "state"

\* the keys IntoMap writes
intoMapKeys(f) ==
    (IF f.ID # "" THEN {keyID} ELSE {})
        \cup (IF f.User # "" THEN {keyUser} ELSE {})
        \cup (IF ~IsNone(f.State) THEN {keyState} ELSE {})

\* IntoMap that leaves the user out
IntoMap_DropUser(f) ==
    [key \in intoMapKeys(f) \ {keyUser} |->
        IF key = keyID THEN f.ID
        ELSE IF key = keyUser THEN f.User
        ELSE String(f.State)]

\* AccessRequestFilter.IntoMap, lines 100-112
IntoMap(f) ==
    [key \in intoMapKeys(f) |->
        IF key = keyID THEN f.ID
        ELSE IF key = keyUser THEN f.User
        ELSE String(f.State)]

\* the state case of FromMap, lines 122-125
fromMapState(f, parsed) ==
    IF parsed.err # Nil THEN [err |-> parsed.err, f |-> f]
    ELSE [err |-> Nil, f |-> [f EXCEPT !.State = parsed.state]]

\* one turn of the loop of FromMap, lines 116-127
fromMapKey(f, key, val) ==
    IF key = keyID THEN [err |-> Nil, f |-> [f EXCEPT !.ID = val]]
    ELSE IF key = keyUser THEN [err |-> Nil, f |-> [f EXCEPT !.User = val]]
    ELSE IF key = keyState THEN fromMapState(f, Parse(f.State, val))
    ELSE [err |-> BadParameter, f |-> f]

RECURSIVE FromMap(_, _, _)

\* the loop goes on after a turn that returned no error
fromMapRest(turn, m, rest) ==
    IF turn.err # Nil THEN turn ELSE FromMap(turn.f, m, rest)

\* AccessRequestFilter.FromMap, lines 114-130, on the receiver f, visiting the
\* keys of m in the order keys: the error and the receiver after the call
FromMap(f, m, keys) ==
    IF keys = <<>> THEN [err |-> Nil, f |-> f]
    ELSE fromMapRest(fromMapKey(f, Head(keys), m[Head(keys)]), m, Tail(keys))

\* AccessRequestFilter.Equals, lines 146-148
Equals(f, o) == f.ID = o.ID /\ f.User = o.User /\ f.State = o.State

\* the orders in which a range over the map m can visit its keys
KeyOrders(m) ==
    {keys \in SeqsOf(DOMAIN m, Cardinality(DOMAIN m), Cardinality(DOMAIN m)) :
        NoRepeat(keys)}

ZeroFilter == [ID |-> "", User |-> "", State |-> RequestState_NONE]

Filters == [ID : {"", NewUUID}, User : {"", Alice}, State : stateVariants]

\* a filter that already has every field set
UsedFilter == [ID |-> "0", User |-> "bob", State |-> RequestState_DENIED]

\* the values a caller's map may give to a key: "name" is not a key of the
\* filter and "pending" is not the name of a state
MapValues(key) ==
    IF key = keyID THEN {NewUUID}
    ELSE IF key = keyUser THEN {Alice}
    ELSE IF key = keyState THEN {"PENDING", "pending"}
    ELSE {"x"}

MapKeys == {keyID, keyUser, keyState, "name"}

Maps ==
    UNION {{m \in [K -> UNION {MapValues(key) : key \in K}] :
                \A key \in K : m[key] \in MapValues(key)} : K \in SUBSET MapKeys}

InitFilter ==
    /\ validator = newRequestValidator(EmptyMap, RequestState_NONE)
    /\ pushed = <<>>
    /\ pushErr = Nil
    /\ users = NoUsers
    /\ req = NoRequest
    /\ pc = "filter"
    /\ ret = NoCall
    /\ calls = <<>>
    /\ validators = <<>>
    /\ \E f \in Filters, m \in Maps, receiver \in {ZeroFilter, UsedFilter} :
           arg = [filter |-> f, m |-> m, receiver |-> receiver, stage |-> "new",
                  err |-> Nil, out |-> receiver]
    /\ cmd = <<>>
    /\ store = <<>>
    /\ scaling = <<>>

\* the map of the filter replaces the caller's map
IntoMapCall ==
    /\ pc = "filter"
    /\ arg.stage = "new"
    /\ arg' = [arg EXCEPT !.m = IntoMap(arg.filter), !.stage = "encoded"]
    /\ UNCHANGED <<validator, pushed, pushErr, users, req, pc, ret, calls, validators, cmd,
                   store, scaling>>

\* the receiver reads the map: the caller's ("decoded") or the filter's
\* ("roundtrip")
FromMapCall(keys) ==
    /\ pc = "filter"
    /\ arg.stage \in {"new", "encoded"}
    /\ arg' = [arg EXCEPT !.err = FromMap(arg.receiver, arg.m, keys).err,
                          !.out = FromMap(arg.receiver, arg.m, keys).f,
                          !.stage = IF @ = "new" THEN "decoded" ELSE "roundtrip"]
    /\ UNCHANGED <<validator, pushed, pushErr, users, req, pc, ret, calls, validators, cmd,
                   store, scaling>>

NextFilter ==
    \/ IntoMapCall
    \/ \E keys \in KeyOrders(arg.m) : FromMapCall(keys)

SpecFilter == InitFilter /\ [][NextFilter]_vars

-----------------------------------------------------------------------------
(* tctl requests approve / deny (tool/tctl/common/access_request_command.go, *)
(* lines 115-179).  The flags of the command are strings, modelled as        *)
(* sequences of characters.  The auth server behind the client is not among  *)
(* the sources: a call of SetAccessRequestState for a request the server     *)
(* does not store returns NotFound, and a call for a stored request either   *)
(* resolves it or returns an error the server picks.  The command makes one  *)
(* call of the client per turn of its loop; the delegator only decorates the *)
(* context of the calls.                                                     *)

AccessDenied == "AccessDenied"

\* strings.Index for a separator of one character: the offset of its first
\* occurrence, -1 when there is none
Index(s, c) ==
    IF \E i \in 1..Len(s) : s[i] = c
    THEN (CHOOSE i \in 1..Len(s) : s[i] = c /\ \A j \in 1..(i - 1) : s[j] # c) - 1
    ELSE -1

\* strings.Split for a separator of one character
RECURSIVE Split(_, _)
Split(s, sep) ==
    IF Index(s, sep) < 0 THEN <<s>>
    ELSE <<SubSeq(s, 1, Index(s, sep))>> \o Split(SubSeq(s, Index(s, sep) + 2, Len(s)), sep)

RECURSIVE TrimLeft(_)
TrimLeft(s) == IF s # <<>> /\ Head(s) = " " THEN TrimLeft(Tail(s)) ELSE s

RECURSIVE TrimRight(_)
TrimRight(s) ==
    IF s # <<>> /\ s[Len(s)] = " " THEN TrimRight(SubSeq(s, 1, Len(s) - 1)) ELSE s

\* strings.TrimSpace
TrimSpace(s) == TrimRight(TrimLeft(s))

\* lines 121-132: one key=value pair
attrPair(s, idx) ==
    IF idx < 1 THEN [err |-> BadParameter, key |-> <<>>, val |-> <<>>]
    ELSE IF TrimSpace(SubSeq(s, 1, idx)) = <<>>
    THEN [err |-> BadParameter, key |-> <<>>, val |-> <<>>]
    ELSE IF TrimSpace(SubSeq(s, idx + 2, Len(s))) = <<>>
    THEN [err |-> BadParameter, key |-> <<>>, val |-> <<>>]
    ELSE [err |-> Nil, key |-> TrimSpace(SubSeq(s, 1, idx)),
          val |-> TrimSpace(SubSeq(s, idx + 2, Len(s)))]

\* line 133: attrs[key] = val
MapPut(m, k, v) == [x \in DOMAIN m \cup {k} |-> IF x = k THEN v ELSE m[x]]

RECURSIVE splitAttrsLoop(_, _)

splitAttrsNext(pair, rest, attrs) ==
    IF pair.err # Nil THEN [err |-> pair.err, attrs |-> EmptyMap]
    ELSE splitAttrsLoop(rest, MapPut(attrs, pair.key, pair.val))

\* lines 117-134: the loop over the parts of the flag
splitAttrsLoop(parts, attrs) ==
    IF parts = <<>> THEN [err |-> Nil, attrs |-> attrs]
    ELSE IF Head(parts) = <<>> THEN splitAttrsLoop(Tail(parts), attrs)
    ELSE splitAttrsNext(attrPair(Head(parts), Index(Head(parts), "=")), Tail(parts), attrs)

\* AccessRequestCommand.splitAttrs, lines 115-135
splitAttrs(attrs) == splitAttrsLoop(Split(attrs, ","), EmptyMap)

\* the update of lines 147-152 and 169-174
resolveUpdate(c, reqID) ==
    [RequestID |-> reqID, State |-> c.state, Reason |-> c.reason, Attrs |-> c.attrs]

\* what the server may answer to the update
Answers(stored, update) ==
    IF update.RequestID \in DOMAIN stored THEN {Nil, AccessDenied} ELSE {NotFound}

\* ClientI.SetAccessRequestState: the server after the update, answered with err
SetAccessRequestState(s, update, err) ==
    [requests |->
        IF err = Nil
        THEN [s.requests EXCEPT ![update.RequestID] =
                 [state |-> update.State, reason |-> update.Reason, attrs |-> update.Attrs]]
        ELSE s.requests,
     received |-> Append(s.received, [update |-> update, err |-> err])]

\* the longest request-ids argument, in characters
MaxIDChars == 3

\* the values of the request-ids argument: "a" and "b" are stored requests
ReqIDStrings == SeqsOf({"a", "b", ","}, 0, MaxIDChars)

\* the values of the --attrs flag: none, a pair, two pairs around an empty
\* part, a part without =, a part without a value, a part without a key
AttrStrings ==
    {<<>>,
     <<"k", "=", "v">>,
     <<"k", "=", "v", ",", ",", " ", "l", "=", "w">>,
     <<"k", "=", "v", ",", "l">>,
     <<"k", "=", " ">>,
     <<" ", "=", "v">>}

PendingStored ==
    [id \in {<<"a">>, <<"b">>} |->
        [state |-> RequestState_PENDING, reason |-> "", attrs |-> EmptyMap]]

NoCommand ==
    [pc |-> "idle", state |-> RequestState_NONE, reqIDs |-> <<>>, reason |-> "",
     attrsFlag |-> <<>>, attrs |-> EmptyMap, ids |-> <<>>, next |-> 1, err |-> Nil]

InitBatch ==
    /\ validator = newRequestValidator(EmptyMap, RequestState_NONE)
    /\ pushed = <<>>
    /\ pushErr = Nil
    /\ users = NoUsers
    /\ req = NoRequest
    /\ pc = "batch"
    /\ ret = NoCall
    /\ calls = <<>>
    /\ validators = <<>>
    /\ arg = <<>>
    /\ cmd = NoCommand
    /\ store = [requests |-> PendingStored, received |-> <<>>]
    /\ scaling = <<>>

\* lines 138-145 and 160-167: the command up to its loop; the --reason flag
\* is the same text in every run
resolveStart(state, reqIDs, attrsFlag, split) ==
    /\ pc = "batch"
    /\ cmd.pc = "idle"
    /\ cmd' = IF split.err # Nil
              THEN [cmd EXCEPT !.pc = "done", !.state = state, !.reqIDs = reqIDs,
                               !.attrsFlag = attrsFlag, !.reason = ResolveReason,
                               !.err = split.err]
              ELSE [cmd EXCEPT !.pc = "loop", !.state = state, !.reqIDs = reqIDs,
                               !.attrsFlag = attrsFlag, !.reason = ResolveReason,
                               !.attrs = split.attrs, !.ids = Split(reqIDs, ",")]
    /\ UNCHANGED <<validator, pushed, pushErr, users, req, pc, ret, calls, validators, arg,
                   store, scaling>>

\* AccessRequestCommand.Approve, lines 137-157
Approve(reqIDs, attrsFlag) ==
    resolveStart(RequestState_APPROVED, reqIDs, attrsFlag, splitAttrs(attrsFlag))

\* AccessRequestCommand.Deny, lines 159-179
Deny(reqIDs, attrsFlag) ==
    resolveStart(RequestState_DENIED, reqIDs, attrsFlag, splitAttrs(attrsFlag))

\* a loop that goes on to the next id after a call that failed
afterCall_KeepGoing(c, err) ==
    IF c.next = Len(c.ids)
    THEN [c EXCEPT !.pc = "done", !.err = IF err # Nil THEN err ELSE @, !.next = @ + 1]
    ELSE [c EXCEPT !.err = IF err # Nil THEN err ELSE @, !.next = @ + 1]

\* lines 146-156 and 168-178: the command after the call for the id at next
\* returned err
afterCall(c, err) ==
    IF err # Nil THEN [c EXCEPT !.pc = "done", !.err = err]
    ELSE IF c.next = Len(c.ids) THEN [c EXCEPT !.pc = "done", !.next = @ + 1]
    ELSE [c EXCEPT !.next = @ + 1]

\* one turn of the loop: the call for the next id and what the command does
\* with its result
ResolveStep(err) ==
    /\ pc = "batch"
    /\ cmd.pc = "loop"
    /\ err \in Answers(store.requests, resolveUpdate(cmd, cmd.ids[cmd.next]))
    /\ store' = SetAccessRequestState(store, resolveUpdate(cmd, cmd.ids[cmd.next]), err)
    /\ cmd' = afterCall(cmd, err)
    /\ UNCHANGED <<validator, pushed, pushErr, users, req, pc, ret, calls, validators, arg,
                   scaling>>

NextBatch ==
    \/ \E reqIDs \in ReqIDStrings, attrsFlag \in AttrStrings : Approve(reqIDs, attrsFlag)
    \/ \E reqIDs \in ReqIDStrings, attrsFlag \in AttrStrings : Deny(reqIDs, attrsFlag)
    \/ \E err \in {Nil, NotFound, AccessDenied} : ResolveStep(err)

SpecBatch == InitBatch /\ [][NextBatch]_vars

-----------------------------------------------------------------------------
(* Auto scaling of the DynamoDB backend (lib/backend/dynamo/configure.go,  *)
(* lines 64-252).  Application Auto Scaling keeps scalable targets, one per *)
(* service namespace, resource and dimension, and scaling policies, one per *)
(* namespace, name, resource and dimension; a Describe call returns the     *)
(* entries of the namespace asked for.  Any call may fail; a Delete or a    *)
(* Deregister call for an entry that is absent fails with NotFound.  A      *)
(* formatted name is the tuple of its parts; target values are integers.    *)

ConnectionProblem == "ConnectionProblem"

ServiceNamespaceDynamodb == "dynamodb"
ServiceNamespaceEcs == "ecs"
ScalableDimensionDynamodbTableReadCapacityUnits == "dynamodb:table:ReadCapacityUnits"
ScalableDimensionDynamodbTableWriteCapacityUnits == "dynamodb:table:WriteCapacityUnits"
ScalableDimensionEcsServiceDesiredCount == "ecs:service:DesiredCount"

readScalingPolicySuffix == "read-target-tracking-scaling-policy"
writeScalingPolicySuffix == "write-target-tracking-scaling-policy"
resourcePrefix == "table"

TableName == "teleport.dynamo.continuous.backups"

\* fmt.Sprintf("%v/%v", resourcePrefix, b.TableName)
ResourceId == <<resourcePrefix, "/", TableName>>

\* fmt.Sprintf("%v-%v", b.TableName, suffix)
PolicyName(suffix) == <<TableName, "-", suffix>>

\* the capacities and the target values a configuration may ask for
Capacities == {10, 20}

TargetValues == {50, 70}

\* the configurations of a backend with auto scaling enabled
Configs ==
    {c \in [ReadMinCapacity : Capacities, ReadMaxCapacity : Capacities,
            ReadTargetValue : TargetValues, WriteMinCapacity : Capacities,
            WriteMaxCapacity : Capacities, WriteTargetValue : TargetValues] :
        c.ReadMinCapacity <= c.ReadMaxCapacity /\ c.WriteMinCapacity <= c.WriteMaxCapacity}

\* the configuration of a backend with auto scaling disabled
NoScaling ==
    [ReadMinCapacity |-> 0, ReadMaxCapacity |-> 0, ReadTargetValue |-> 0,
     WriteMinCapacity |-> 0, WriteMaxCapacity |-> 0, WriteTargetValue |-> 0]

RegisterScalableTarget(s, t) ==
    [s EXCEPT !.targets =
        {x \in @ : ~(/\ x.ServiceNamespace = t.ServiceNamespace
                     /\ x.ResourceId = t.ResourceId
                     /\ x.ScalableDimension = t.ScalableDimension)} \cup {t}]

PutScalingPolicy(s, p) ==
    [s EXCEPT !.policies =
        {x \in @ : ~(/\ x.ServiceNamespace = p.ServiceNamespace
                     /\ x.PolicyName = p.PolicyName
                     /\ x.ResourceId = p.ResourceId
                     /\ x.ScalableDimension = p.ScalableDimension)} \cup {p}]

DeleteScalingPolicy(s, name, dimension) ==
    [s EXCEPT !.policies =
        {x \in @ : ~(/\ x.ServiceNamespace = ServiceNamespaceDynamodb
                     /\ x.PolicyName = name
                     /\ x.ResourceId = ResourceId
                     /\ x.ScalableDimension = dimension)}]

DeregisterScalableTarget(s, dimension) ==
    [s EXCEPT !.targets =
        {x \in @ : ~(/\ x.ServiceNamespace = ServiceNamespaceDynamodb
                     /\ x.ResourceId = ResourceId
                     /\ x.ScalableDimension = dimension)}]

DescribeScalableTargets(s, namespace) ==
    {t \in s.targets : t.ServiceNamespace = namespace}

DescribeScalingPolicies(s, namespace) ==
    {p \in s.policies : p.ServiceNamespace = namespace}

\* lines 131-137 and 141-147: the target of a dimension
scalableTarget(dimension, min, max) ==
    [ServiceNamespace |-> ServiceNamespaceDynamodb, ResourceId |-> ResourceId,
     ScalableDimension |-> dimension, MinCapacity |-> min, MaxCapacity |-> max]

\* lines 154-166 and 170-182: the policy of a dimension
scalingPolicy(suffix, dimension, value) ==
    [ServiceNamespace |-> ServiceNamespaceDynamodb, PolicyName |-> PolicyName(suffix),
     ResourceId |-> ResourceId, ScalableDimension |-> dimension, TargetValue |-> value]

\* a service of the same account that scales in the "ecs" namespace
EcsTarget ==
    [ServiceNamespace |-> ServiceNamespaceEcs, ResourceId |-> <<"service", "/", "web">>,
     ScalableDimension |-> ScalableDimensionEcsServiceDesiredCount,
     MinCapacity |-> 1, MaxCapacity |-> 2]

\* the calls of a function of four calls that return no error, when the call
\* failAt fails (0: none fails)
made(failAt) == IF failAt = 0 THEN 4 ELSE failAt - 1

RECURSIVE enableAutoScaling(_, _, _)

\* Backend.enableAutoScaling, lines 126-188: the service after the first n
\* of its calls
enableAutoScaling(s, c, n) ==
    IF n = 0 THEN s
    ELSE IF n = 1
    THEN RegisterScalableTarget(s,
             scalableTarget(ScalableDimensionDynamodbTableReadCapacityUnits,
                            c.ReadMinCapacity, c.ReadMaxCapacity))
    ELSE IF n = 2
    THEN RegisterScalableTarget(enableAutoScaling(s, c, 1),
             scalableTarget(ScalableDimensionDynamodbTableWriteCapacityUnits,
                            c.WriteMinCapacity, c.WriteMaxCapacity))
    ELSE IF n = 3
    THEN PutScalingPolicy(enableAutoScaling(s, c, 2),
             scalingPolicy(readScalingPolicySuffix,
                           ScalableDimensionDynamodbTableReadCapacityUnits,
                           c.ReadTargetValue))
    ELSE PutScalingPolicy(enableAutoScaling(s, c, 3),
             scalingPolicy(writeScalingPolicySuffix,
                           ScalableDimensionDynamodbTableWriteCapacityUnits,
                           c.WriteTargetValue))

RECURSIVE disableAutoScaling(_, _)

\* Backend.disableAutoScaling, lines 191-246: the service after the first n
\* of its calls; a call that returns NotFound changes nothing and the
\* function goes on
disableAutoScaling(s, n) ==
    IF n = 0 THEN s
    ELSE IF n = 1
    THEN DeleteScalingPolicy(s, PolicyName(readScalingPolicySuffix),
                             ScalableDimensionDynamodbTableReadCapacityUnits)
    ELSE IF n = 2
    THEN DeleteScalingPolicy(disableAutoScaling(s, 1), PolicyName(writeScalingPolicySuffix),
                             ScalableDimensionDynamodbTableWriteCapacityUnits)
    ELSE IF n = 3
    THEN DeregisterScalableTarget(disableAutoScaling(s, 2),
                                  ScalableDimensionDynamodbTableReadCapacityUnits)
    ELSE DeregisterScalableTarget(disableAutoScaling(s, 3),
                                  ScalableDimensionDynamodbTableWriteCapacityUnits)

\* lines 87-96: the MinCapacity of the target of the dimension among the
\* targets described, 0 when there is none (the service of the model holds at
\* most one target of a dimension in a namespace)
minCapacity(targets, dimension) ==
    IF \E t \in targets : t.ScalableDimension = dimension
    THEN (CHOOSE t \in targets : t.ScalableDimension = dimension).MinCapacity
    ELSE 0

\* lines 105-112: the TargetValue of the policy of the name, 0 when there is
\* none
targetValue(policies, name) ==
    IF \E p \in policies : p.PolicyName = name
    THEN (CHOOSE p \in policies : p.PolicyName = name).TargetValue
    ELSE 0

\* Backend.getAutoScaling, lines 75-115, when both Describe calls succeed
getAutoScaling(s) ==
    [readMinCapacity |->
        minCapacity(DescribeScalableTargets(s, ServiceNamespaceEcs),
                    ScalableDimensionDynamodbTableReadCapacityUnits),
     readMaxCapacity |->
        minCapacity(DescribeScalableTargets(s, ServiceNamespaceEcs),
                    ScalableDimensionDynamodbTableReadCapacityUnits),
     readTargetValue |->
        targetValue(DescribeScalingPolicies(s, ServiceNamespaceDynamodb),
                    PolicyName(readScalingPolicySuffix)),
     writeMinCapacity |->
        minCapacity(DescribeScalableTargets(s, ServiceNamespaceEcs),
                    ScalableDimensionDynamodbTableWriteCapacityUnits),
     writeMaxCapacity |->
        minCapacity(DescribeScalableTargets(s, ServiceNamespaceEcs),
                    ScalableDimensionDynamodbTableWriteCapacityUnits),
     writeTargetValue |->
        targetValue(DescribeScalingPolicies(s, ServiceNamespaceDynamodb),
                    PolicyName(writeScalingPolicySuffix))]

\* the response of a call of getAutoScaling that returned an error
NoResponse ==
    [readMinCapacity |-> 0, readMaxCapacity |-> 0, readTargetValue |-> 0,
     writeMinCapacity |-> 0, writeMaxCapacity |-> 0, writeTargetValue |-> 0]

InitScaling ==
    /\ validator = newRequestValidator(EmptyMap, RequestState_NONE)
    /\ pushed = <<>>
    /\ pushErr = Nil
    /\ users = NoUsers
    /\ req = NoRequest
    /\ pc = "scaling"
    /\ ret = NoCall
    /\ calls = <<>>
    /\ validators = <<>>
    /\ arg = <<>>
    /\ cmd = <<>>
    /\ store = <<>>
    /\ \E others \in {{}, {EcsTarget}} :
           scaling = [targets |-> others, policies |-> {},
                      applied |-> [op |-> "", err |-> Nil, config |-> NoScaling]]

\* setAutoScaling (lines 118-123) of a backend configured with auto scaling
\* and the configuration c; the call failAt fails
EnableAutoScaling(c, failAt) ==
    /\ pc = "scaling"
    /\ scaling' =
           [enableAutoScaling(scaling, c, made(failAt)) EXCEPT
                !.applied = [op |-> "enableAutoScaling",
                             err |-> IF failAt = 0 THEN Nil ELSE ConnectionProblem,
                             config |-> c]]
    /\ UNCHANGED <<validator, pushed, pushErr, users, req, pc, ret, calls, validators, arg,
                   cmd, store>>

\* setAutoScaling of a backend configured without auto scaling; the call
\* failAt fails with an error other than NotFound
DisableAutoScaling(failAt) ==
    /\ pc = "scaling"
    /\ scaling' =
           [disableAutoScaling(scaling, made(failAt)) EXCEPT
                !.applied = [op |-> "disableAutoScaling",
                             err |-> IF failAt = 0 THEN Nil ELSE ConnectionProblem,
                             config |-> NoScaling]]
    /\ UNCHANGED <<validator, pushed, pushErr, users, req, pc, ret, calls, validators, arg,
                   cmd, store>>

\* one call of getAutoScaling; fails: one of its two Describe calls fails
GetAutoScaling(fails) ==
    /\ pc = "scaling"
    /\ pc' = "read"
    /\ ret' = [op |-> "getAutoScaling",
               err |-> IF fails THEN ConnectionProblem ELSE Nil,
               resp |-> IF fails THEN NoResponse ELSE getAutoScaling(scaling)]
    /\ UNCHANGED <<validator, pushed, pushErr, users, req, calls, validators, arg, cmd,
                   store, scaling>>

NextScaling ==
    \/ \E c \in Configs, failAt \in 0..4 : EnableAutoScaling(c, failAt)
    \/ \E failAt \in 0..4 : DisableAutoScaling(failAt)
    \/ \E fails \in BOOLEAN : GetAutoScaling(fails)

SpecScaling == InitScaling /\ [][NextScaling]_vars

-----------------------------------------------------------------------------
(* Claims about the aggregator, checked under SpecPush *)

\* the values a list of annotation templates stands for
ExpandedValues(templates, traits) ==
    Flatten([i \in 1..Len(templates) |->
                IF templates[i].var THEN MapGet(traits, templates[i].text)
                ELSE <<templates[i].text>>])

\* the pattern has a matcher and the matcher matches the name
PatternMatches(pattern, name) ==
    NewMatcher(pattern).err = Nil /\ Match(NewMatcher(pattern), name)

\* the deny (allow) role patterns of a role: its literal patterns and the
\* patterns its trait mappings give for the traits
DenyPatterns(role, traits) == role.deny.roles \o TraitsToRoles(role.deny.claims, traits)

AllowPatterns(role, traits) == role.allow.roles \o TraitsToRoles(role.allow.claims, traits)

DeniedBy(roleName, traits, name) ==
    \E p \in Range(DenyPatterns(RoleByName(roleName), traits)) : PatternMatches(p, name)

AllowedBy(roleName, traits, name) ==
    \E p \in Range(AllowPatterns(RoleByName(roleName), traits)) : PatternMatches(p, name)

\* C1: deny precedence.  After any pushes, CanRequestRole is false for every
\* name that a deny pattern (literal or from a deny trait mapping) of a
\* pushed role matches, whatever allow pattern of a pushed role matches it too.
C1_DenyPrecedence ==
    \A name \in Names :
        (\E i \in 1..Len(Succeeded) : DeniedBy(Succeeded[i], validator.traits, name))
            => ~CanRequestRole(validator, name)

\* a name that one pushed role allows by a pattern and another pushed role
\* denies through a trait mapping, and a name one pushed role both allows and denies
C1_Witness ==
    /\ pushErr = Nil
    /\ \E name \in Names, i, j \in 1..Len(pushed) :
           /\ i # j
           /\ AllowedBy(pushed[i], validator.traits, name)
           /\ \E p \in Range(TraitsToRoles(RoleByName(pushed[j]).deny.claims, validator.traits)) :
                  PatternMatches(p, name)
           /\ ~CanRequestRole(validator, name)
    /\ \E name \in Names, i \in 1..Len(pushed) :
           AllowedBy(pushed[i], validator.traits, name)
               /\ DeniedBy(pushed[i], validator.traits, name)

\* C2: default deny.  CanRequestRole is true exactly when no accumulated deny
\* matcher matches the name and some accumulated allow matcher does; it is
\* false for every name when nothing was pushed, and when no pushed role
\* contributes an allow pattern.
C2_DefaultDeny ==
    /\ \A name \in Names :
           CanRequestRole(validator, name) <=>
               /\ \A i \in 1..Len(validator.Roles.Deny) : ~Match(validator.Roles.Deny[i], name)
               /\ \E i \in 1..Len(validator.Roles.Allow) : Match(validator.Roles.Allow[i], name)
    /\ (\A i \in 1..Len(pushed) : AllowPatterns(RoleByName(pushed[i]), validator.traits) = <<>>)
           => \A name \in Names : ~CanRequestRole(validator, name)

\* after pushes one name is allowed, and another name, which no deny matcher
\* and no allow matcher matches, is refused
C2_Witness ==
    /\ pushed # <<>>
    /\ \E name \in Names : CanRequestRole(validator, name)
    /\ \E name \in Names :
           /\ ~CanRequestRole(validator, name)
           /\ \A i \in 1..Len(validator.Roles.Deny) : ~Match(validator.Roles.Deny[i], name)
           /\ \A i \in 1..Len(validator.Roles.Allow) : ~Match(validator.Roles.Allow[i], name)

\* C9: SystemAnnotations returns no key whose allow values are all among the
\* deny values of the key: every key returned has a non-empty list, and
\* every value returned is an allow value of the key that is no deny value of it.
C9_NoCoveredKey ==
    LET sa == SystemAnnotations(validator)
    IN  \A k \in AnnotationKeys :
            /\ k \in DOMAIN sa =>
                   /\ Len(sa[k]) > 0
                   /\ \A v \in Range(sa[k]) :
                          /\ v \in Range(MapGet(validator.Annotations.Allow, k))
                          /\ v \notin Range(MapGet(validator.Annotations.Deny, k))
            /\ Range(MapGet(validator.Annotations.Allow, k))
                   \subseteq Range(MapGet(validator.Annotations.Deny, k))
                   => k \notin DOMAIN sa

\* one key has allow values that the deny values all cover and is left out,
\* while another key is returned with part of its allow values
C9_Witness ==
    LET sa == SystemAnnotations(validator)
    IN  /\ \E k \in AnnotationKeys :
               /\ MapGet(validator.Annotations.Allow, k) # <<>>
               /\ Range(validator.Annotations.Allow[k])
                      \subseteq Range(MapGet(validator.Annotations.Deny, k))
               /\ k \notin DOMAIN sa
        /\ \E k \in DOMAIN sa :
               /\ Range(sa[k]) # Range(validator.Annotations.Allow[k])
               /\ Range(sa[k]) # {}

\* the orders in which the entries of a list can be taken
Orders(s) ==
    {[i \in 1..Len(s) |-> s[f[i]]] :
        f \in {g \in [1..Len(s) -> 1..Len(s)] : \A i, j \in 1..Len(s) : i # j => g[i] # g[j]}}

\* a fresh aggregator with the traits and the state of the one under construction
Fresh == newRequestValidator(validator.traits, validator.state)

\* C12: order independence of CanRequestRole.  When the roles pushed all
\* succeeded, pushing the same roles in any other order into a fresh
\* aggregator with the same traits and state succeeds too and gives the
\* same CanRequestRole result for every name.
C12_OrderIndependence ==
    pushErr = Nil =>
        \A order \in Orders(pushed) :
            /\ pushAll(Fresh, order).err = Nil
            /\ \A name \in Names :
                   CanRequestRole(pushAll(Fresh, order).m, name)
                       = CanRequestRole(validator, name)

\* two different roles were pushed, one allowing a name the other denies,
\* and the matcher lists of the two orders differ
C12_Witness ==
    /\ pushErr = Nil
    /\ Len(pushed) = 2
    /\ pushed[1] # pushed[2]
    /\ \E name \in Names :
           AllowedBy(pushed[1], validator.traits, name)
               /\ DeniedBy(pushed[2], validator.traits, name)
    /\ pushAll(Fresh, <<pushed[2], pushed[1]>>).m.Roles.Allow # validator.Roles.Allow

\* the values the pushed roles give a key through their allow (deny)
\* annotation templates: a literal gives itself, a reference the values
\* bound to the trait, none when the trait is unbound
PushedAllowValues(k) ==
    Flatten([i \in 1..Len(pushed) |->
                ExpandedValues(MapGet(RoleByName(pushed[i]).allow.annotations, k),
                               validator.traits)])

PushedDenyValues(k) ==
    Flatten([i \in 1..Len(pushed) |->
                ExpandedValues(MapGet(RoleByName(pushed[i]).deny.annotations, k),
                               validator.traits)])

\* C22: annotation templates that fail to interpolate are skipped.  In a
\* PENDING aggregator a push fails only for a malformed role pattern, never
\* for a template; and after pushes that all succeeded each key holds, for
\* allow and for deny, the values of the templates of the pushed roles that
\* expand, those next to a template that does not expand included.
C22_FailedTemplatesSkipped ==
    validator.state = RequestState_PENDING =>
        /\ pushErr # Nil =>
               \E p \in Range(DenyPatterns(RoleByName(pushed[Len(pushed)]), validator.traits)
                                 \o AllowPatterns(RoleByName(pushed[Len(pushed)]),
                                                  validator.traits)) :
                   NewMatcher(p).err # Nil
        /\ pushErr = Nil =>
               \A k \in AnnotationKeys :
                   /\ MapGet(validator.Annotations.Allow, k) = PushedAllowValues(k)
                   /\ MapGet(validator.Annotations.Deny, k) = PushedDenyValues(k)

\* the role pushed has, under one key, a template that refers to an unbound
\* trait followed by one that refers to a bound trait, and the key holds
\* the values of the bound trait
C22_Witness ==
    /\ validator.state = RequestState_PENDING
    /\ pushErr = Nil
    /\ \E i \in 1..Len(pushed), k \in AnnotationKeys :
           /\ Len(MapGet(RoleByName(pushed[i]).allow.annotations, k)) = 2
           /\ RoleByName(pushed[i]).allow.annotations[k][1].var
           /\ RoleByName(pushed[i]).allow.annotations[k][1].text \notin DOMAIN validator.traits
           /\ RoleByName(pushed[i]).allow.annotations[k][2].var
           /\ RoleByName(pushed[i]).allow.annotations[k][2].text \in DOMAIN validator.traits
           /\ validator.Annotations.Allow[k] # <<>>

\* the two lists hold the same entries the same number of times
SameEntries(s, t) ==
    /\ Len(s) = Len(t)
    /\ \A x \in Range(s) :
           Cardinality({i \in 1..Len(s) : s[i] = x}) = Cardinality({i \in 1..Len(t) : t[i] = x})

\* the two maps have the same keys and, under each key, the same entries
SameValues(a, b) ==
    /\ DOMAIN a = DOMAIN b
    /\ \A k \in DOMAIN a : SameEntries(a[k], b[k])

\* C19 as stated: when the roles pushed all succeeded, pushing them in any
\* other order into a fresh aggregator gives the same aggregator (the same
\* Roles.Allow, Roles.Deny, Annotations.Allow and Annotations.Deny) and the
\* same mapping from SystemAnnotations.
C19_OrderFreeAggregator ==
    pushErr = Nil =>
        \A order \in Orders(pushed) :
            /\ pushAll(Fresh, order).m = validator
            /\ SystemAnnotations(pushAll(Fresh, order).m) = SystemAnnotations(validator)

\* C19: commutativity up to the order of the entries.  When the roles pushed
\* all succeeded, pushing them in any other order into a fresh aggregator
\* gives accumulators with the same entries the same number of times (the
\* matchers of Roles.Allow and of Roles.Deny, and the values of each key of
\* Annotations.Allow and of Annotations.Deny), and SystemAnnotations returns
\* the same keys with the same values the same number of times.
C19_SameEntriesAnyOrder ==
    pushErr = Nil =>
        \A order \in Orders(pushed) :
            /\ pushAll(Fresh, order).err = Nil
            /\ SameEntries(pushAll(Fresh, order).m.Roles.Allow, validator.Roles.Allow)
            /\ SameEntries(pushAll(Fresh, order).m.Roles.Deny, validator.Roles.Deny)
            /\ SameValues(pushAll(Fresh, order).m.Annotations.Allow, validator.Annotations.Allow)
            /\ SameValues(pushAll(Fresh, order).m.Annotations.Deny, validator.Annotations.Deny)
            /\ SameValues(SystemAnnotations(pushAll(Fresh, order).m),
                          SystemAnnotations(validator))

\* two roles pushed into a PENDING aggregator, the other order giving
\* another list of allow values under a key and another list under a key of
\* SystemAnnotations, one of whose allow values is among the deny values
C19_Witness ==
    /\ pushErr = Nil
    /\ Len(pushed) = 2
    /\ validator.state = RequestState_PENDING
    /\ pushAll(Fresh, <<pushed[2], pushed[1]>>).m.Annotations.Allow
           # validator.Annotations.Allow
    /\ SystemAnnotations(pushAll(Fresh, <<pushed[2], pushed[1]>>).m)
           # SystemAnnotations(validator)
    /\ \E k \in DOMAIN SystemAnnotations(validator) :
           Len(SystemAnnotations(validator)[k]) < Len(validator.Annotations.Allow[k])

-----------------------------------------------------------------------------
(* Claims about SetState, checked under SpecState *)

\* C7: DENIED is absorbing.  On a denied request SetState(DENIED) succeeds and
\* SetState of any other state returns BadParameter; whatever SetState calls
\* follow the first transition to DENIED, the state stays DENIED.
C7_DeniedAbsorbing ==
    /\ [](ret.op = "SetState" /\ ret.before.state = RequestState_DENIED =>
              /\ req.state = RequestState_DENIED
              /\ ret.target = RequestState_DENIED => ret.err = Nil
              /\ ret.target # RequestState_DENIED => ret.err = BadParameter)
    /\ [][req.state = RequestState_DENIED => req'.state = RequestState_DENIED]_vars

\* a denied request was asked to become APPROVED, was refused and is still denied
C7_Witness ==
    /\ ret.op = "SetState"
    /\ ret.before.state = RequestState_DENIED
    /\ ret.target = RequestState_APPROVED
    /\ ret.err = BadParameter
    /\ req.state = RequestState_DENIED

\* C25: DENIED is the only state that restricts transitions.  On a request
\* that is not DENIED, SetState(s) returns nil for every state s (NONE,
\* PENDING, APPROVED, DENIED) and leaves the request in state s, its other
\* fields unchanged; so an APPROVED request can go back to PENDING or NONE.
C25_TransitionsFromNonDenied ==
    (ret.op = "SetState" /\ ret.before.state # RequestState_DENIED)
        => /\ ret.err = Nil
           /\ req = [ret.before EXCEPT !.state = ret.target]

\* an APPROVED request is set back to PENDING
C25_Witness ==
    /\ ret.op = "SetState"
    /\ ret.before.state = RequestState_APPROVED
    /\ ret.target = RequestState_PENDING
    /\ ret.err = Nil
    /\ req.state = RequestState_PENDING

-----------------------------------------------------------------------------
(* Claims about ValidateAccessRequest, checked under Spec.  What a call    *)
(* should do is stated from the stored user and the stored roles, not from *)
(* the aggregator the call builds.                                         *)

Called == ret.op = "Validate"

Held == users[Alice].roles

Traits == users[Alice].traits

\* every role pattern of the role has a matcher, so that its push returns nil
PushSucceeds(roleName) ==
    \A p \in Range(DenyPatterns(RoleByName(roleName), Traits)
                       \o AllowPatterns(RoleByName(roleName), Traits)) :
        NewMatcher(p).err = Nil

\* the user is stored, and every role the user holds is stored and pushed
LookupsAndPushesSucceed ==
    /\ Alice \in DOMAIN users
    /\ \A i \in 1..Len(Held) : Held[i] \in RoleNames /\ PushSucceeds(Held[i])

ReasonRequired ==
    \E i \in 1..Len(Held) : RoleByName(Held[i]).requestAccess = RequestStrategyReason

\* the call gets past the reason check
PassesReasonCheck ==
    /\ LookupsAndPushesSucceed
    /\ ~(ReasonRequired /\ ret.before.requestReason = "")

\* what the rules of the held roles say of a name: some allow pattern of a
\* held role matches it and no deny pattern of a held role does
Accepted(name) ==
    /\ \E i \in 1..Len(Held) : AllowedBy(Held[i], Traits, name)
    /\ ~\E i \in 1..Len(Held) : DeniedBy(Held[i], Traits, name)

\* C3: wildcard expansion.  With expandRoles and the role list ["*"], once
\* the lookups and the reason check pass, the role list becomes exactly the
\* listed role names that are not held and that the rules accept.
C3_WildcardExpansion ==
    (/\ Called
     /\ ret.expandRoles
     /\ ret.before.roles = <<WILDCARD>>
     /\ PassesReasonCheck
     /\ ret.step # "list")
        => /\ NoRepeat(req.roles)
           /\ Range(req.roles) = {n \in RoleNames : n \notin Range(Held) /\ Accepted(n)}

\* an expansion that gives roles, leaves out a held role the rules accept and
\* leaves out a role that is not held and that the rules refuse
C3_Witness ==
    /\ Called
    /\ ret.expandRoles
    /\ ret.before.roles = <<WILDCARD>>
    /\ ret.err = Nil
    /\ req.roles # <<>>
    /\ \E n \in RoleNames : n \in Range(Held) /\ Accepted(n) /\ n \notin Range(req.roles)
    /\ \E n \in RoleNames : n \notin Range(Held) /\ ~Accepted(n) /\ n \notin Range(req.roles)

\* C4: a wildcard request without expansion.  With expandRoles false and the
\* role list ["*"], once the lookups and the reason check pass, the call
\* returns BadParameter (unexpected wildcard), the role listing is not
\* consulted and the role list is still ["*"].
C4_WildcardRefused ==
    (/\ Called
     /\ ~ret.expandRoles
     /\ ret.before.roles = <<WILDCARD>>
     /\ PassesReasonCheck)
        => /\ ret.err = BadParameter
           /\ ret.step = "wildcard"
           /\ ~ret.listed
           /\ req.roles = <<WILDCARD>>

\* a wildcard request refused although the rules accept roles the user does not hold
C4_Witness ==
    /\ Called
    /\ ~ret.expandRoles
    /\ ret.before.roles = <<WILDCARD>>
    /\ PassesReasonCheck
    /\ ret.step = "wildcard"
    /\ \E n \in RoleNames : n \notin Range(Held) /\ Accepted(n)

\* C5: admission.  After a successful call the rules of the held roles
\* accept every name of the role list; and a call that reaches the admission
\* check with an explicit role list holding a name the rules refuse returns
\* BadParameter.
C5_Admission ==
    /\ (Called /\ ret.err = Nil) => \A i \in 1..Len(req.roles) : Accepted(req.roles[i])
    /\ (/\ Called
        /\ PassesReasonCheck
        /\ ret.before.roles # <<WILDCARD>>
        /\ \E i \in 1..Len(ret.before.roles) : ~Accepted(ret.before.roles[i]))
           => ret.err = BadParameter /\ ret.step = "admission"

\* an explicit list of one name the rules accept followed by one they refuse
C5_Witness ==
    /\ Called
    /\ PassesReasonCheck
    /\ Len(ret.before.roles) = 2
    /\ Accepted(ret.before.roles[1])
    /\ ~Accepted(ret.before.roles[2])
    /\ ret.err = BadParameter
    /\ ret.step = "admission"

\* C6: required reason.  When the lookups and pushes succeed, the call fails
\* with BadParameter (request reason must be specified) exactly when the
\* reason is empty and a held role has RequestAccess "reason".
C6_RequiredReason ==
    (Called /\ LookupsAndPushesSucceed)
        => ((ret.err = BadParameter /\ ret.step = "reason")
               <=> (ret.before.requestReason = "" /\ ReasonRequired))

\* the reason is missing, and among the held roles one has RequestAccess
\* "reason" and another "always"
C6_Witness ==
    /\ Called
    /\ LookupsAndPushesSucceed
    /\ ret.step = "reason"
    /\ ret.before.requestReason = ""
    /\ \E i \in 1..Len(Held) : RoleByName(Held[i]).requestAccess = RequestStrategyAlways

\* the annotation keys the allow conditions of the held roles contribute
AllowKeys == UNION {DOMAIN RoleByName(h).allow.annotations : h \in Range(Held)}

\* the expanded allow values of a key, over the held roles in order
AllowValues(k) ==
    Flatten([i \in 1..Len(Held) |->
                ExpandedValues(MapGet(RoleByName(Held[i]).allow.annotations, k), Traits)])

\* the expanded deny values of a key, over all held roles
DenyValues(k) ==
    UNION {Range(ExpandedValues(MapGet(RoleByName(h).deny.annotations, k), Traits)) :
               h \in Range(Held)}

\* C8: system annotations of a pending request.  After a successful call on
\* a PENDING request the system annotations hold, for each key the allow
\* conditions of the held roles contribute, the expanded allow values of the
\* key that are no expanded deny value of the same key, and no other key.
C8_SystemAnnotations ==
    (Called /\ ret.err = Nil /\ ret.before.state = RequestState_PENDING)
        => /\ DOMAIN req.systemAnnotations \subseteq AllowKeys
           /\ \A k \in AllowKeys :
                  MapGet(req.systemAnnotations, k) =
                      SelectSeq(AllowValues(k), LAMBDA v : v \notin DenyValues(k))

\* a key keeps a value that is a deny value of another key, and loses a
\* value that is a deny value of its own
C8_Witness ==
    /\ Called
    /\ ret.err = Nil
    /\ ret.before.state = RequestState_PENDING
    /\ \E k \in DOMAIN req.systemAnnotations, k2 \in AnnotationKeys :
           /\ k # k2
           /\ \E v \in Range(req.systemAnnotations[k]) : v \in DenyValues(k2)
           /\ \E v \in Range(AllowValues(k)) : v \in DenyValues(k)

\* C10: a request that is not PENDING keeps its system annotations, whatever
\* the outcome of the call.
C10_AnnotationsOnlyWhilePending ==
    (Called /\ ret.before.state # RequestState_PENDING)
        => req.systemAnnotations = ret.before.systemAnnotations

\* an APPROVED request with earlier system annotations is validated with
\* success, its user holding roles with allow annotations, and keeps them
C10_Witness ==
    /\ Called
    /\ ret.err = Nil
    /\ ret.before.state = RequestState_APPROVED
    /\ ret.before.systemAnnotations = StaleAnnotations
    /\ req.systemAnnotations = StaleAnnotations
    /\ AllowKeys # {}

\* C11: re-validation is a no-op.  A second call on the request that a
\* successful call left, no wildcard remaining in its role list, with the
\* same stored user and roles, succeeds and leaves the role list and the
\* system annotations as the first call left them, whatever expandRoles is
\* and whether or not the role listing would succeed.
C11_RevalidationNoOp ==
    (ret.op = "Revalidate" /\ WILDCARD \notin Range(ret.before.roles))
        => /\ ret.err = Nil
           /\ req.roles = ret.before.roles
           /\ req.systemAnnotations = ret.before.systemAnnotations

\* a pending request that the first call left with several roles and with
\* system annotations is validated again, without expansion
C11_Witness ==
    /\ ret.op = "Revalidate"
    /\ ~ret.expandRoles
    /\ ret.before.state = RequestState_PENDING
    /\ Len(ret.before.roles) >= 2
    /\ ret.before.systemAnnotations # EmptyMap
    /\ ret.err = Nil
    /\ req = ret.before

\* the held role at index i is stored and its push returns nil
HeldOK(i) == Held[i] \in RoleNames /\ PushSucceeds(Held[i])

\* C13: lookup failures abort validation.  A user that is not stored, the
\* first held role that is not stored (the held roles before it being stored
\* and pushed), and a role listing that fails during wildcard expansion each
\* make the call return the lookup error (NotFound for the user and the
\* role); no later step is taken: the request is left as it was, and for a
\* missing user or role the role listing is not consulted.
C13_LookupFailures ==
    Called =>
        /\ Alice \notin DOMAIN users
               => /\ ret.err = NotFound /\ ret.step = "user"
                  /\ req = ret.before /\ ~ret.listed
        /\ Alice \in DOMAIN users
               => \A i \in 1..Len(Held) :
                      (Held[i] \notin RoleNames /\ \A j \in 1..(i - 1) : HeldOK(j))
                          => /\ ret.err = NotFound /\ ret.step = "role"
                             /\ req = ret.before /\ ~ret.listed
        /\ (/\ PassesReasonCheck
            /\ ret.before.roles = <<WILDCARD>>
            /\ ret.expandRoles
            /\ ~ret.listOK)
               => /\ ret.err # Nil /\ ret.step = "list"
                  /\ req = ret.before /\ ret.listed

\* the user holds a stored role that asks for a reason and then a role that
\* is not stored; the PENDING wildcard request has no reason, and the call
\* returns NotFound for the role, not the missing-reason error
C13_Witness ==
    /\ Called
    /\ Alice \in DOMAIN users
    /\ Len(Held) = 2
    /\ Held[1] = strict
    /\ Held[2] \notin RoleNames
    /\ ret.before.requestReason = ""
    /\ ret.before.roles = <<WILDCARD>>
    /\ ret.before.state = RequestState_PENDING
    /\ ret.expandRoles
    /\ ret.err = NotFound
    /\ ret.step = "role"
    /\ req = ret.before

\* C15: the frame of ValidateAccessRequest.  Whatever the outcome of a call
\* (first or repeated), the request keeps its state, its user, its request
\* reason, its resolve reason and its resolve annotations: the request after
\* the call is the request before it but for the role list and the system
\* annotations.
C15_Frame ==
    ret.op \in {"Validate", "Revalidate"} =>
        /\ req.state = ret.before.state
        /\ req.user = ret.before.user
        /\ req.requestReason = ret.before.requestReason
        /\ req.resolveReason = ret.before.resolveReason
        /\ req.resolveAnnotations = ret.before.resolveAnnotations
        /\ req = [ret.before EXCEPT !.roles = req.roles,
                                   !.systemAnnotations = req.systemAnnotations]

\* a successful call that replaces the role list of an APPROVED request
\* carrying a request reason, a resolve reason and resolve annotations
C15_Witness ==
    /\ Called
    /\ ret.err = Nil
    /\ ret.before.state = RequestState_APPROVED
    /\ ret.before.requestReason # ""
    /\ ret.before.resolveReason # ""
    /\ ret.before.resolveAnnotations # EmptyMap
    /\ req.roles # ret.before.roles
    /\ req.roles # <<>>

\* C16: an empty wildcard expansion is accepted.  With expandRoles and the
\* role list ["*"], once the lookups, the reason check and the role listing
\* pass, if no listed role is both not held and accepted by the rules, the
\* call returns nil and leaves the request with an empty role list.
C16_EmptyExpansionAccepted ==
    (/\ Called
     /\ ret.expandRoles
     /\ ret.listOK
     /\ ret.before.roles = <<WILDCARD>>
     /\ PassesReasonCheck
     /\ \A n \in RoleNames : n \in Range(Held) \/ ~Accepted(n))
        => /\ ret.err = Nil
           /\ req.roles = <<>>

\* the user holds roles whose rules accept no role, the request is PENDING,
\* and the call succeeds, empties the role list and attaches annotations
C16_Witness ==
    /\ Called
    /\ ret.expandRoles
    /\ ret.before.roles = <<WILDCARD>>
    /\ ret.before.state = RequestState_PENDING
    /\ Alice \in DOMAIN users
    /\ Held # <<>>
    /\ ret.err = Nil
    /\ req.roles = <<>>
    /\ req.systemAnnotations # EmptyMap
    /\ req.systemAnnotations # ret.before.systemAnnotations

\* the first held role that is not stored or whose push fails
FirstFailingHeld == CHOOSE i \in 1..Len(Held) : ~HeldOK(i) /\ \A j \in 1..(i - 1) : HeldOK(j)

\* C20: fail-fast step order.  The call returns the error of the earliest
\* step that fails, in the order: user lookup; lookup and push of the held
\* roles, in the order the user holds them; required reason; wildcard
\* without expansion; role listing; admission of the requested roles.  It
\* returns nil when none fails.
C20_FailFastOrder ==
    Called =>
        IF Alice \notin DOMAIN users
        THEN ret.step = "user" /\ ret.err = NotFound
        ELSE IF \E i \in 1..Len(Held) : ~HeldOK(i)
        THEN IF Held[FirstFailingHeld] \notin RoleNames
             THEN ret.step = "role" /\ ret.err = NotFound
             ELSE ret.step = "push" /\ ret.err = BadParameter
        ELSE IF ReasonRequired /\ ret.before.requestReason = ""
        THEN ret.step = "reason" /\ ret.err = BadParameter
        ELSE IF ret.before.roles = <<WILDCARD>> /\ ~ret.expandRoles
        THEN ret.step = "wildcard" /\ ret.err = BadParameter
        ELSE IF ret.before.roles = <<WILDCARD>> /\ ~ret.listOK
        THEN ret.step = "list" /\ ret.err # Nil
        ELSE IF /\ ret.before.roles # <<WILDCARD>>
                /\ \E i \in 1..Len(ret.before.roles) : ~Accepted(ret.before.roles[i])
        THEN ret.step = "admission" /\ ret.err = BadParameter
        ELSE ret.step = "" /\ ret.err = Nil

\* the request names ["*"] and gives no reason, roles are not to be expanded,
\* the role listing would fail too, and the user holds a role with
\* RequestAccess "reason": the call returns the missing-reason error
C20_Witness ==
    /\ Called
    /\ ret.before.roles = <<WILDCARD>>
    /\ ~ret.expandRoles
    /\ ~ret.listOK
    /\ ret.before.requestReason = ""
    /\ LookupsAndPushesSucceed
    /\ ReasonRequired
    /\ ret.step = "reason"
    /\ ret.err = BadParameter

-----------------------------------------------------------------------------
(* Claims about the persistence-time check, checked under SpecCheck *)

\* C17: the check owns "at least one role".  Check, CheckAndSetDefaults and
\* NewAccessRequest return BadParameter for every request whose role list is
\* empty (for NewAccessRequest: when it is given no role), so the request
\* that a wildcard expansion left without roles is refused by the check.
C17_CheckRejectsNoRoles ==
    (ret.op \in {"Check", "CheckAndSetDefaults", "NewAccessRequest"}
         /\ ret.before.roles = <<>>)
        => /\ ret.err = BadParameter
           /\ ret.before = EmptiedByExpansion => ret.step = "roles"

\* the request that wildcard expansion left without roles, which has
\* nothing else wrong, is checked and refused for its role list
C17_Witness ==
    /\ ret.op = "CheckAndSetDefaults"
    /\ ret.before = EmptiedByExpansion
    /\ ret.before.roles = <<>>
    /\ ret.before.state = RequestState_PENDING
    /\ ret.err = BadParameter
    /\ ret.step = "roles"

\* C18: the state defaults to PENDING.  A request NewAccessRequest returns
\* is PENDING; CheckAndSetDefaults leaves a request of state NONE in state
\* PENDING and a request of any other state in its state, whether or not it
\* returns an error after that step (it returns before it when the metadata
\* are refused); after a successful CheckAndSetDefaults the state is not NONE.
C18_StateDefaultsToPending ==
    /\ (ret.op = "NewAccessRequest" /\ ret.err = Nil)
           => req.state = RequestState_PENDING
    /\ (ret.op = "CheckAndSetDefaults" /\ ret.step # "metadata")
           => req.state = (IF ret.before.state = RequestState_NONE
                           THEN RequestState_PENDING ELSE ret.before.state)
    /\ (ret.op = "CheckAndSetDefaults" /\ ret.err = Nil)
           => req.state # RequestState_NONE

\* a request of state NONE, otherwise in order, passes CheckAndSetDefaults
\* and is PENDING
C18_Witness ==
    /\ ret.op = "CheckAndSetDefaults"
    /\ ret.before.state = RequestState_NONE
    /\ ret.err = Nil
    /\ req.state = RequestState_PENDING
    /\ req = [ret.before EXCEPT !.state = RequestState_PENDING]

-----------------------------------------------------------------------------
(* Claims about concurrent invocations, checked under SpecConc *)

\* what the invocation returns and leaves when it runs alone
Alone(i) == ValidateAccessRequest(users, calls[i].given, calls[i].expandRoles, TRUE)

\* C14: concurrent invocations do not interfere.  Under every interleaving
\* of the statements of two invocations on their own requests, against the
\* same stored users and roles, an invocation that has returned has
\* returned the error, and left its request in the state, that the
\* invocation gives when it runs alone.
C14_NoInterference ==
    \A i \in Invocations :
        calls[i].pc = "done" =>
            /\ calls[i].err = Alone(i).err
            /\ calls[i].step = Alone(i).step
            /\ calls[i].req = Alone(i).req

\* both invocations have returned, one with an error and the other with a
\* request it has expanded and annotated, the user holding several roles
C14_Witness ==
    /\ \A i \in Invocations : calls[i].pc = "done"
    /\ Len(users[Alice].roles) >= 2
    /\ calls[1].err # Nil
    /\ calls[2].err = Nil
    /\ calls[2].given.roles = <<WILDCARD>>
    /\ calls[2].req.roles # <<>>
    /\ calls[2].req.systemAnnotations # EmptyMap

\* C23: a failed validation leaves the request untouched.  Whenever a call
\* (first or repeated) returns an error, the role list and the system
\* annotations are what they were before the call; the admission check
\* fails only on a role list that the call has not replaced.
C23_FailureLeavesRequest ==
    (ret.op \in {"Validate", "Revalidate"} /\ ret.err # Nil)
        => /\ req.roles = ret.before.roles
           /\ req.systemAnnotations = ret.before.systemAnnotations
           /\ ret.step = "admission" => ~ret.listed /\ ret.before.roles # <<WILDCARD>>

\* a PENDING request that carries annotations of an earlier validation
\* fails at the admission check, its user holding roles that would give
\* other annotations, and keeps its role list and its annotations
C23_Witness ==
    /\ Called
    /\ ret.err # Nil
    /\ ret.step = "admission"
    /\ ret.before.state = RequestState_PENDING
    /\ ret.before.systemAnnotations = StaleAnnotations
    /\ AllowKeys # {}
    /\ req = ret.before

\* C24: no wildcard after a validation without expansion.  When a call
\* with expandRoles false returns nil, the role list holds no "*" entry,
\* be it the only entry, one entry among role names, or repeated.
C24_NoWildcardWithoutExpansion ==
    (Called /\ ~ret.expandRoles /\ ret.err = Nil) => WILDCARD \notin Range(req.roles)

\* the request carries a resolve reason or resolve annotations
HasResolveData(r) == r.resolveReason # "" \/ DOMAIN r.resolveAnnotations # {}

\* C26: a pending request carries no resolution data.  Check returns
\* BadParameter for every PENDING request with a resolve reason or resolve
\* annotations, and so does CheckAndSetDefaults, also for a request of
\* state NONE, which it makes PENDING; a request that passed Check or
\* CheckAndSetDefaults and is PENDING has neither.
C26_PendingHasNoResolveData ==
    /\ (ret.op = "Check" /\ IsPending(ret.before.state) /\ HasResolveData(ret.before))
           => ret.err = BadParameter
    /\ (/\ ret.op = "CheckAndSetDefaults"
        /\ ret.before.state \in {RequestState_PENDING, RequestState_NONE}
        /\ HasResolveData(ret.before))
           => ret.err = BadParameter
    /\ (/\ ret.op \in {"Check", "CheckAndSetDefaults", "NewAccessRequest"}
        /\ ret.err = Nil
        /\ IsPending(req.state))
           => ~HasResolveData(req)

\* a PENDING request with resolve annotations and no resolve reason, and
\* nothing else wrong, is refused for the annotations
C26_Witness ==
    /\ ret.op = "Check"
    /\ IsPending(ret.before.state)
    /\ ret.before.resolveReason = ""
    /\ ret.before.resolveAnnotations # EmptyMap
    /\ ret.err = BadParameter
    /\ ret.step = "resolve annotations"

-----------------------------------------------------------------------------
(* Claims about a malformed role pattern, checked under SpecConc, where    *)
(* the aggregator of an invocation can be seen when the invocation returns *)

\* the patterns of a list that precede its first malformed pattern
RECURSIVE WellFormedPrefix(_)
WellFormedPrefix(ps) ==
    IF ps = <<>> \/ NewMatcher(Head(ps)).err # Nil THEN <<>>
    ELSE <<Head(ps)>> \o WellFormedPrefix(Tail(ps))

\* the matchers of a list of well-formed patterns
Matchers(ps) == [k \in 1..Len(ps) |-> NewMatcher(ps[k])]

\* the deny (allow) patterns of the held roles before index n
DenyPatternsBefore(n) ==
    Flatten([k \in 1..(n - 1) |-> DenyPatterns(RoleByName(Held[k]), Traits)])

AllowPatternsBefore(n) ==
    Flatten([k \in 1..(n - 1) |-> AllowPatterns(RoleByName(Held[k]), Traits)])

\* the held role at index n is stored and has a malformed role pattern, and
\* the held roles before it are stored and pushed
MalformedAt(n) ==
    /\ n \in 1..Len(Held)
    /\ \A k \in 1..(n - 1) : HeldOK(k)
    /\ Held[n] \in RoleNames
    /\ ~PushSucceeds(Held[n])

\* C21: a malformed role pattern aborts accumulation.  When the first held
\* role that fails has a malformed allow or deny role pattern (literal or
\* from a trait mapping), the invocation returns the BadParameter of the
\* matcher from the push of that role: the aggregator holds the matchers of
\* the earlier roles and of the patterns of that role that precede the
\* malformed one (none of its allow patterns when a deny pattern is
\* malformed), the role and the held roles after it are still to be
\* processed, and the request is as it was given.
C21_MalformedPatternAborts ==
    \A i \in Invocations : \A n \in 1..Len(Held) :
        (calls[i].pc = "done" /\ MalformedAt(n)) =>
            /\ calls[i].err = BadParameter
            /\ calls[i].step = "push"
            /\ calls[i].held = SubSeq(Held, n, Len(Held))
            /\ calls[i].req = calls[i].given
            /\ validators[i].Roles.Deny =
                   Matchers(DenyPatternsBefore(n)
                                \o WellFormedPrefix(DenyPatterns(RoleByName(Held[n]), Traits)))
            /\ validators[i].Roles.Allow =
                   Matchers(AllowPatternsBefore(n)
                                \o (IF WellFormedPrefix(DenyPatterns(RoleByName(Held[n]), Traits))
                                         = DenyPatterns(RoleByName(Held[n]), Traits)
                                    THEN WellFormedPrefix(AllowPatterns(RoleByName(Held[n]), Traits))
                                    ELSE <<>>))

\* one invocation has returned from a role whose trait mapping gives a
\* malformed deny pattern after a well-formed one, a held role that asks
\* for a reason still to be fetched and the request without a reason
C21_Witness ==
    \E i \in Invocations :
        /\ calls[i].pc = "done"
        /\ calls[i].step = "push"
        /\ Len(calls[i].held) = 2
        /\ calls[i].held[2] = strict
        /\ calls[i].given.requestReason = ""
        /\ Len(validators[i].Roles.Deny) = 2
        /\ validators[i].Roles.Allow = <<>>
        /\ Len(DenyPatterns(RoleByName(calls[i].held[1]), Traits)) > 2

-----------------------------------------------------------------------------
(* Claims about AccessRequestUpdate.Check, checked under SpecUpdate *)

\* C27: AccessRequestUpdate.Check accepts an update exactly when its request
\* id is not empty, its state is not NONE, and its roles are empty unless the
\* state is APPROVED; every other update is rejected with BadParameter, so an
\* update that overrides roles while setting DENIED or PENDING is rejected.
C27_UpdateCheck ==
    arg.called =>
        /\ arg.err \in {Nil, BadParameter}
        /\ arg.err = Nil <=>
               /\ arg.update.RequestID # ""
               /\ arg.update.State # RequestState_NONE
               /\ (arg.update.Roles = <<>> \/ arg.update.State = RequestState_APPROVED)
        /\ (/\ arg.update.Roles # <<>>
            /\ arg.update.State \in {RequestState_DENIED, RequestState_PENDING})
               => arg.err = BadParameter

C27_Witness ==
    /\ pc = "update"
    /\ arg.called
    /\ arg.update.RequestID # ""
    /\ arg.update.Roles # <<>>
    /\ arg.update.State = RequestState_DENIED
    /\ arg.err = BadParameter

-----------------------------------------------------------------------------
(* Claims about the map form of a filter, checked under SpecFilter *)

\* C28: a zero-valued filter that reads the map of a filter f returns no
\* error and Equals f afterwards; the map of f has no id key when the id is
\* empty, no user key when the user is empty and no state key when the state
\* is NONE; FromMap returns BadParameter for a map with a key other than id,
\* user and state.
C28_FilterRoundTrip ==
    /\ (pc = "filter" /\ arg.stage = "roundtrip" /\ arg.receiver = ZeroFilter)
           => arg.err = Nil /\ Equals(arg.out, arg.filter)
    /\ (pc = "filter" /\ arg.stage \in {"encoded", "roundtrip"})
           => /\ arg.filter.ID = "" => keyID \notin DOMAIN arg.m
              /\ arg.filter.User = "" => keyUser \notin DOMAIN arg.m
              /\ arg.filter.State = RequestState_NONE => keyState \notin DOMAIN arg.m
    /\ (/\ pc = "filter"
        /\ arg.stage \in {"decoded", "roundtrip"}
        /\ DOMAIN arg.m \ {keyID, keyUser, keyState} # {})
           => arg.err = BadParameter

C28_Witness ==
    /\ pc = "filter"
    /\ arg.stage = "roundtrip"
    /\ arg.receiver = ZeroFilter
    /\ arg.filter.ID # ""
    /\ arg.filter.User = ""
    /\ arg.filter.State = RequestState_APPROVED
    /\ DOMAIN arg.m = {keyID, keyState}
    /\ arg.err = Nil

-----------------------------------------------------------------------------
(* Claims about tctl requests approve / deny, checked under SpecBatch *)

\* the ids of the command line, in the order given
GivenIDs == Split(cmd.reqIDs, ",")

\* the calls the server has received that returned no error
Resolved == {k \in 1..Len(store.received) : store.received[k].err = Nil}

\* C29: the command calls SetAccessRequestState for the comma-separated ids
\* one at a time in the order given, with the state of the command; when a
\* call fails the command returns that error and it was the last call made,
\* and the requests of the calls before it are in the state of the command;
\* when the attribute string is malformed the command returns BadParameter,
\* no call is made and no request is updated.
C29_BatchStopsAtFirstFailure ==
    pc = "batch" =>
        /\ Len(store.received) <= Len(GivenIDs)
        /\ \A k \in 1..Len(store.received) :
               /\ store.received[k].update.RequestID = GivenIDs[k]
               /\ store.received[k].update.State = cmd.state
               /\ store.received[k].err # Nil
                      => /\ k = Len(store.received)
                         /\ cmd.pc = "done"
                         /\ cmd.err = store.received[k].err
        /\ \A k \in Resolved : store.requests[GivenIDs[k]].state = cmd.state
        /\ (cmd.pc = "done" /\ cmd.err = Nil) => Resolved = 1..Len(GivenIDs)
        /\ (cmd.pc # "idle" /\ splitAttrs(cmd.attrsFlag).err # Nil)
               => /\ cmd.pc = "done"
                  /\ cmd.err = BadParameter
                  /\ store.received = <<>>
                  /\ store.requests = PendingStored

\* the call for the second id failed after the call for the first resolved it
C29_Witness ==
    /\ pc = "batch"
    /\ cmd.pc = "done"
    /\ cmd.err = AccessDenied
    /\ Len(GivenIDs) = 2
    /\ Len(store.received) = 2
    /\ store.received[1].err = Nil
    /\ store.received[2].err = AccessDenied
    /\ store.requests[GivenIDs[1]].state = RequestState_DENIED
    /\ store.requests[GivenIDs[2]].state = RequestState_PENDING

-----------------------------------------------------------------------------
(* Claims about auto scaling, checked under SpecScaling *)

\* the six values of a configuration, as a response
Configured(c) ==
    [readMinCapacity |-> c.ReadMinCapacity, readMaxCapacity |-> c.ReadMaxCapacity,
     readTargetValue |-> c.ReadTargetValue, writeMinCapacity |-> c.WriteMinCapacity,
     writeMaxCapacity |-> c.WriteMaxCapacity, writeTargetValue |-> c.WriteTargetValue]

\* C30: a call of getAutoScaling that succeeds after auto scaling has been
\* enabled returns the six values configured (the maximum capacities, not the
\* minimum ones), and after auto scaling has been disabled it returns zero for
\* all six.
C30_ReadsBackAsConfigured ==
    (pc = "read" /\ ret.err = Nil /\ scaling.applied.err = Nil)
        => /\ scaling.applied.op = "enableAutoScaling"
                  => ret.resp = Configured(scaling.applied.config)
           /\ scaling.applied.op = "disableAutoScaling"
                  => ret.resp = Configured(NoScaling)

====
